---- MODULE Spec2Model ----
(***************************************************************************)
(* A model of the ovn-tester harness: the NB client's UUID-retry create    *)
(* paths, sync barrier, bulk membership additions and dual-stack subnets   *)
(* (ovn_utils.py), the namespace/ACL model and the cluster's provisioning  *)
(* of ports (ovn_workload.py) and the rate-governed iteration driver.      *)
(***************************************************************************)
EXTENDS Integers, Sequences, FiniteSets, TLC

(***************************************************************************)
(* Bounds of the model and program constants.                              *)
(***************************************************************************)
\* create calls issued in one behaviour of the UUID-retry specification
MaxCalls == 3
\* ovn_utils.py:50
MAX_RETRY == 5

\* sync calls issued in one behaviour of the sync specification
MaxSyncs == 2
\* the largest transaction timeout a caller passes, in ticks
MaxTimeout == 2

\* the ports a namespace is given: the first NumPorts ports provisioned
NumPorts == 2
\* ports the cluster provisions in one behaviour
MaxProvisioned == 4
\* ports passed to one add_ports call
MaxBatch == 2
\* worker nodes of the cluster
NumWorkers == 2
\* sub-namespaces created in one namespace
MaxSubNs == 1
\* iterations of the rate-governed phase
NumIter == 3
\* ticks between two launch slots (1/qps seconds)
SlotTicks == 2
\* ticks the clock may run beyond the last launch slot
Slack == 2
\* ovn_workload.py:364-366
ACL_DEFAULT_DENY_PRIO == 1
ACL_DEFAULT_ALLOW_ARP_PRIO == 2
ACL_NETPOL_ALLOW_PRIO == 3

\* natural keys a caller may request
Names == {"a", "b"}

\* ovn_utils.py:530 and ovn_utils.py:547
MAX_PORTS_IN_BATCH == 500
MAX_ADDRS_IN_BATCH == 500
\* the longest list passed to one bulk membership addition
MaxMembers == 1001

\* width of an IPv4 address and of an IPv6 address, in bits
Bits4 == 3
Bits6 == 4
\* the largest index passed to forward / reverse
MaxIndex == 3

VARIABLES
    \* ---- NB tables written by the create paths ----
    rows,       \* set of [table, name, uuid]: the rows of the NB
    nextUuid,   \* the UUID the DB assigns to the next inserted row
    \* ---- the create call in progress (uuid_transaction / db_create_transaction) ----
    pc,         \* "idle" | "uuid_loop" | "dbc_loop" | "returned" | "raised"
    op,         \* the OvnNbctl method called
    reqName,    \* the name it was called with
    attempt,    \* create commands executed by the call so far
    lookups,    \* get_func lookups executed by the call so far
    hist,       \* what each create attempt met: "hit" | "ok" | "ambiguous" | "lost"
    written,    \* UUIDs of the rows the call's attempts inserted, in order
    dupInsert,  \* the last attempt inserted a row whose key was already present
    ret,        \* the value the call returned
    ncalls,     \* calls issued so far
    \* ---- NB_Global and the sync barrier (NBTransaction) ----
    nb_cfg,     \* NB_Global.nb_cfg
    sb_cfg,     \* NB_Global.sb_cfg
    hv_cfg,     \* NB_Global.hv_cfg
    nbOptions,  \* NB_Global.options: the keys set by set_global
    phase,      \* "none" | "Pending" | "Committed" | "Synchronized" | "TimedOut"
    wait_type,  \* NBTransaction.wait_type: "none" | "sb" | "hv"
    timeout,    \* the transaction's timeout, in ticks
    elapsed,    \* ticks since the transaction started
    next_cfg,   \* the nb_cfg value the transaction's increment produced
    atCommit,   \* NB_Global.options as the transaction committed
    syncResult, \* "none" | "running" | "returned" | "raised": how sync ended
    nsyncs,     \* sync calls issued so far
    \* ---- a namespace and its NB entities (Namespace) ----
    nsPorts,    \* Namespace.ports, a list
    enforcing,  \* Namespace.enforcing
    pgMembers,  \* NB Port_Group.ports of the namespace's three port groups
    asAddrs,    \* NB Address_Set.addresses of the namespace's address set
    acls,       \* the ACL rows of the NB
    applied,    \* the policy calls that have completed on the namespace
    nbPgs,      \* the core port groups of the namespace that exist in the NB
    asExists,   \* the namespace's address set exists in the NB
    subPgs,     \* Namespace.sub_pg, each with its NB row: [exists, members]
    subAs,      \* Namespace.sub_as, each with its NB row: [exists, addrs]
    delLog,     \* the port-group and address-set deletions unprovision() executed, in order
    lastEnforce, \* the last enforce() call: "never" | "first" | "later", the port_group_add_ports calls it issued
    unprovisioned, \* Namespace.unprovision() has returned
    \* ---- the cluster: workers and the logical switch ports of the NB ----
    lsps,       \* the ports whose Logical_Switch_Port row exists in the NB
    metadata,   \* port.metadata: the worker of every port provisioned so far
    lports,     \* WorkerNode.lports of every worker
    next_lport_index,     \* WorkerNode.next_lport_index of every worker
    last_selected_worker, \* Cluster.last_selected_worker
    bound,      \* per worker: the ports attached to its br-int (OvsVsctl)
    \* ---- a rate-governed phase (Context.qps_test) ----
    now,        \* ticks since the phase started
    nextIter,   \* the next iteration to launch
    launchedAt, \* launch time of every launched iteration
    running,    \* iterations launched and not yet completed
    overlapped, \* some launch happened while an earlier body was still running
    qpsDone,    \* the phase has completed
    \* ---- a bulk membership addition (port_group_add_ports / address_set_add_addrs) ----
    bulkOp,     \* "none" | "port_group_add_ports" | "address_set_add_addrs"
    bulkInput,  \* the list the call was given
    bulkBefore, \* the members of the group or set in the NB before the call
    bulkTxns,   \* the members carried by each transaction the call executed, in order
    bulkMembers, \* the members of the group or set in the NB
    \* ---- a call of DualStackSubnet.forward / reverse ----
    dsOp,       \* "none" | "forward" | "reverse"
    dsSubnet,   \* the subnet the method was called on
    dsIndex,    \* the index it was called with
    dsResult,   \* the DualStackIP it returned or the exception it raised
    \* ---- a run of the driver (ovn_tester.py) ----
    mainPc,       \* "start" | "configured" | "checked" | "nodes" | "prepared" | "exit"
    config,       \* the configuration read_config was given
    node_remote,  \* cluster_cfg.node_remote: the endpoints of the comma-joined list
    nodesCreated, \* create_nodes has built the central and worker nodes
    dbConnected,  \* a connection to the NB / SB DB has been attempted
    nodesStarted, \* Cluster.start has started nodes
    mainOutcome,  \* "running" | "exit0" | "usage" | "StopIteration" | "InvalidConfig"
    \* ---- a run of the netpol_cross_ns test ----
    npPhase,       \* "config" | "startup" | "test" | "cleanup" | "done"
    n_ns,          \* NetpolCrossNs.config.n_ns
    pods_ns_ratio, \* NetpolCrossNs.config.pods_ns_ratio
    all_ns,        \* the namespaces of all_ns, each the list of its ports
    iterPc,        \* per iteration: "waiting" | "launched" | "allowed" | "checked"
    npLog,         \* the namespace calls made so far, in order
    \* ---- bring-up of the workers (Cluster.start, WorkerNode.provision) ----
    wpPc,           \* "config" | "start" | "connect" | "wait" | "topology" | "done" | "failed"
    wpWorker,       \* the worker the loop in progress is at
    node_timeout_s, \* cluster_cfg.node_timeout_s
    chassis,        \* per worker, its chassis in the SB: "absent" | "connected" | "bound"
    polls,          \* per worker: polls of wait() that did not find the chassis bound
    wpLog,          \* what was done for the workers, in order: [w, cmd]
    wpRaised,       \* the exception that ended the bring-up, "none" if there is none
    \* ---- the ports of the workers, with the calls in flight ----
    ppPhase,    \* "config" | "bringup" | "startup" | "test" | "done"
    ppCfg,      \* n_pods_per_node, n_ns, pods_ns_ratio and the prefix lengths of the nets
    ppW,        \* the worker the bring-up loop is at
    ppLeft,     \* provision_port calls the loop in progress has still to start
    ppLast,     \* Cluster.last_selected_worker
    ppLports,   \* per worker: WorkerNode.lports, the ports as ls_port_add returned them
    ppNext,     \* per worker: WorkerNode.next_lport_index
    ppInFlight, \* the provision_port calls that await ls_port_add: [task, port]
    ppIter,     \* per iteration of the test phase: "waiting" | "launched" | "ended"
    \* ---- the start of the central node (CentralNode.start) ----
    cnPc,             \* "config" | "start" | "sleep" | "nb" | "sb" | "trim" | "done"
    raft_election_to, \* cluster_cfg.raft_election_to
    cnTimeouts,       \* the values the loop of set_raft_election_timeout has still to issue
    cnLog,            \* the commands issued so far, in order
    \* ---- the bring-up of the cluster (Cluster.start, run_base_cluster_bringup) ----
    buPc,       \* the statement __main__ is at, "config" at first, "exit" at last
    buCfg,      \* clustered_db, n_workers, the number of configured tests, mgmt_ip
    buW,        \* the index the loop in progress is at
    buRouter,   \* Cluster.router: None or the router
    buJoin,     \* Cluster.join_switch: None or the switch
    buLb,       \* Cluster.load_balancer: None or the load balancer
    buLog,      \* the calls made so far, in order: [op, arg]
    \* ---- a load balancer and the routers and switches it is attached to ----
    lbPc,       \* "config" | "ready"
    lbRows,     \* the rows of the NB: [lr, ls], the names of the routers and switches
    lbAttached, \* [lr, ls]: the routers and switches that hold the load balancer
    lbCall,     \* the last call: None or [op, targets, raised]
    \* ---- one ping (WorkerNode.run_ping) ----
    pgPc,           \* "idle" | "loop" | "returned" | "raised"
    ping_timeout_s, \* cluster_cfg.node_timeout_s at the time of the ping
    pgReachable,    \* whether a ping attempt to the destination can succeed
    pgElapsed,      \* seconds since start_time
    pgFailed,       \* an attempt of this ping has failed
    \* ---- the ports of the workers, provisioned and unprovisioned one by one ----
    wkLports,    \* per worker: WorkerNode.lports
    wkNext,      \* per worker: WorkerNode.next_lport_index
    wkLsps,      \* the names of the Logical_Switch_Port rows of the NB
    wkAllocated, \* per worker: the names provision_port has returned, in order
    wkLast       \* the last call: [op, port, failed, raised]

uuidVars == <<rows, nextUuid, pc, op, reqName, attempt, lookups, hist, written,
              dupInsert, ret, ncalls>>

syncVars == <<nb_cfg, sb_cfg, hv_cfg, nbOptions, phase, wait_type, timeout, elapsed,
              next_cfg, atCommit, syncResult, nsyncs>>

nsVars == <<nsPorts, enforcing, pgMembers, asAddrs, acls, applied, nbPgs, asExists,
            subPgs, subAs, delLog, lastEnforce, unprovisioned>>

clVars == <<lsps, metadata, lports, next_lport_index, last_selected_worker, bound>>

qpsVars == <<now, nextIter, launchedAt, running, overlapped, qpsDone>>

bulkVars == <<bulkOp, bulkInput, bulkBefore, bulkTxns, bulkMembers>>

dsVars == <<dsOp, dsSubnet, dsIndex, dsResult>>

mainVars == <<mainPc, config, node_remote, nodesCreated, dbConnected, nodesStarted, mainOutcome>>

npVars == <<npPhase, n_ns, pods_ns_ratio, all_ns, iterPc, npLog>>

wpVars == <<wpPc, wpWorker, node_timeout_s, chassis, polls, wpLog, wpRaised>>

ppVars == <<ppPhase, ppCfg, ppW, ppLeft, ppLast, ppLports, ppNext, ppInFlight, ppIter>>

cnVars == <<cnPc, raft_election_to, cnTimeouts, cnLog>>

buVars == <<buPc, buCfg, buW, buRouter, buJoin, buLb, buLog>>

lbVars == <<lbPc, lbRows, lbAttached, lbCall>>

pgVars == <<pgPc, ping_timeout_s, pgReachable, pgElapsed, pgFailed>>

wkVars == <<wkLports, wkNext, wkLsps, wkAllocated, wkLast>>

vars == <<uuidVars, syncVars, nsVars, clVars, qpsVars, bulkVars, dsVars, mainVars, npVars, wpVars, ppVars, cnVars, buVars, lbVars, pgVars, wkVars>>

\* what the actions of one part leave alone
FrameUuid == UNCHANGED <<syncVars, nsVars, clVars, qpsVars, bulkVars, dsVars, mainVars, npVars, wpVars, ppVars, cnVars, buVars, lbVars, pgVars, wkVars>>
FrameSync == UNCHANGED <<uuidVars, nsVars, clVars, qpsVars, bulkVars, dsVars, mainVars, npVars, wpVars, ppVars, cnVars, buVars, lbVars, pgVars, wkVars>>
\* the namespace and cluster actions say themselves what they leave of nsVars and clVars
FrameNs   == UNCHANGED <<uuidVars, syncVars, qpsVars, bulkVars, dsVars, mainVars, npVars, wpVars, ppVars, cnVars, buVars, lbVars, pgVars, wkVars>>
FrameQps  == UNCHANGED <<uuidVars, syncVars, nsVars, clVars, bulkVars, dsVars, mainVars, npVars, wpVars, ppVars, cnVars, buVars, lbVars, pgVars, wkVars>>
FrameBulk == UNCHANGED <<uuidVars, syncVars, nsVars, clVars, qpsVars, dsVars, mainVars, npVars, wpVars, ppVars, cnVars, buVars, lbVars, pgVars, wkVars>>
FrameDs   == UNCHANGED <<uuidVars, syncVars, nsVars, clVars, qpsVars, bulkVars, mainVars, npVars, wpVars, ppVars, cnVars, buVars, lbVars, pgVars, wkVars>>
FrameMain == UNCHANGED <<uuidVars, syncVars, nsVars, clVars, qpsVars, bulkVars, dsVars, npVars, wpVars, ppVars, cnVars, buVars, lbVars, pgVars, wkVars>>
FrameNetpol == UNCHANGED <<uuidVars, syncVars, nsVars, clVars, qpsVars, bulkVars, dsVars, mainVars, wpVars, ppVars, cnVars, buVars, lbVars, pgVars, wkVars>>
FrameProvision == UNCHANGED <<uuidVars, syncVars, nsVars, clVars, qpsVars, bulkVars, dsVars, mainVars, npVars, ppVars, cnVars, buVars, lbVars, pgVars, wkVars>>
FramePorts == UNCHANGED <<uuidVars, syncVars, nsVars, clVars, qpsVars, bulkVars, dsVars, mainVars, npVars, wpVars, cnVars, buVars, lbVars, pgVars, wkVars>>
FrameCentral == UNCHANGED <<uuidVars, syncVars, nsVars, clVars, qpsVars, bulkVars, dsVars, mainVars, npVars, wpVars, ppVars, buVars, lbVars, pgVars, wkVars>>
FrameBringup == UNCHANGED <<uuidVars, syncVars, nsVars, clVars, qpsVars, bulkVars, dsVars, mainVars, npVars, wpVars, ppVars, cnVars, lbVars, pgVars, wkVars>>
FrameLb == UNCHANGED <<uuidVars, syncVars, nsVars, clVars, qpsVars, bulkVars, dsVars, mainVars, npVars, wpVars, ppVars, cnVars, buVars, pgVars, wkVars>>
FramePing == UNCHANGED <<uuidVars, syncVars, nsVars, clVars, qpsVars, bulkVars, dsVars, mainVars, npVars, wpVars, ppVars, cnVars, buVars, lbVars, wkVars>>
FrameWorker == UNCHANGED <<uuidVars, syncVars, nsVars, clVars, qpsVars, bulkVars, dsVars, mainVars, npVars, wpVars, ppVars, cnVars, buVars, lbVars, pgVars>>

(***************************************************************************)
(* Values a command's result attribute can hold.                           *)
(*   row  : a RowView of an NB row (has a .uuid attribute)                 *)
(*   uuid : a bare UUID of an NB row                                       *)
(*   none : None, the value the command was constructed with               *)
(*   temp : the provisional UUID of an insert whose commit was not         *)
(*          acknowledged; it names no row of the NB                        *)
(***************************************************************************)
RowResult(u)  == [tag |-> "row",  uuid |-> u]
UuidResult(u) == [tag |-> "uuid", uuid |-> u]
NoneResult    == [tag |-> "none", uuid |-> 0]
TempResult    == [tag |-> "temp", uuid |-> 0]

\* what a command's result holds when its commit was not acknowledged
UnackedResults == {NoneResult, TempResult}

\* what the commit of an insert can meet: acknowledged; written but the
\* acknowledgement lost in a leadership change; not written at all
CommitOutcomes == {"ok", "ambiguous", "lost"}

UuidOps == {"lr_add", "ls_add", "ls_port_add"}
DbcOps  == {"create_lb", "create_lbg"}

TableOf(o) ==
    CASE o = "lr_add"      -> "Logical_Router"
      [] o = "ls_add"      -> "Logical_Switch"
      [] o = "ls_port_add" -> "Logical_Switch_Port"
      [] o = "create_lb"   -> "Load_Balancer"
      [] o = "create_lbg"  -> "Load_Balancer_Group"

RowsNamed(rs, t, n) == {r \in rs : r.table = t /\ r.name = n}

\* the row a lookup by name yields (the first match)
FirstRow(rs) == CHOOSE r \in rs : \A q \in rs : r.uuid <= q.uuid

(***************************************************************************)
(* Python attribute access on a command result.                            *)
(***************************************************************************)
\* "cmd.result.uuid" raises AttributeError unless the result is a row view
UuidAccessRaises(res) == res.tag # "row"

\* "cmd.result" reads an attribute every command object carries: it never raises
ResultAccessRaises(res) == FALSE

\* a faulty variant of may_exist: the add command is built without may_exist
may_exist_off == FALSE

\* a faulty variant of may_exist: may_exist is passed on the retries only
may_exist_on_retry == attempt > 0

\* uuid_transaction calls func(may_exist=True) on every attempt
may_exist == TRUE

InitUuid ==
    /\ rows = {}
    /\ nextUuid = 1
    /\ pc = "idle"
    /\ op = "lr_add"
    /\ reqName = "a"
    /\ attempt = 0
    /\ lookups = 0
    /\ hist = <<>>
    /\ written = <<>>
    /\ dupInsert = FALSE
    /\ ret = NoneResult
    /\ ncalls = 0

InitSync ==
    /\ nb_cfg = 0
    /\ sb_cfg = 0
    /\ hv_cfg = 0
    /\ nbOptions = {}
    /\ phase = "none"
    /\ wait_type = "none"
    /\ timeout = 1
    /\ elapsed = 0
    /\ next_cfg = 0
    /\ atCommit = {}
    /\ syncResult = "none"
    /\ nsyncs = 0

CorePgs == {"pg_deny_igr", "pg_deny_egr", "pg"}

\* create_namespace: three empty port groups and an empty address set
InitNs ==
    /\ nsPorts = <<>>
    /\ enforcing = FALSE
    /\ pgMembers = [g \in CorePgs |-> {}]
    /\ asAddrs = {}
    /\ acls = {}
    /\ applied = {}
    /\ nbPgs = CorePgs
    /\ asExists = TRUE
    /\ subPgs = <<>>
    /\ subAs = <<>>
    /\ delLog = <<>>
    /\ lastEnforce = [call |-> "never", pgCalls |-> 0]
    /\ unprovisioned = FALSE

Workers == 0..(NumWorkers - 1)

\* Cluster.__init__ and WorkerNode.__init__: no port provisioned yet
InitCluster ==
    /\ lsps = {}
    /\ metadata = <<>>
    /\ lports = [w \in Workers |-> <<>>]
    /\ next_lport_index = [w \in Workers |-> 0]
    /\ last_selected_worker = 0
    /\ bound = [w \in Workers |-> {}]

InitQps ==
    /\ now = 0
    /\ nextIter = 0
    /\ launchedAt = <<>>
    /\ running = {}
    /\ overlapped = FALSE
    /\ qpsDone = FALSE

InitBulk ==
    /\ bulkOp = "none"
    /\ bulkInput = <<>>
    /\ bulkBefore = {}
    /\ bulkTxns = <<>>
    /\ bulkMembers = {}

\* Python's None is the empty set, a value x is {x}
None == {}
Some(x) == {x}
The(s) == CHOOSE x \in s : TRUE

\* DualStackSubnet(n4, n6)
DualStackSubnet(n4, n6) == [n4 |-> n4, n6 |-> n6]

InitDs ==
    /\ dsOp = "none"
    /\ dsSubnet = DualStackSubnet(None, None)
    /\ dsIndex = 0
    /\ dsResult = [tag |-> "none"]

\* the configuration of a run before read_config has returned one
NoConfig ==
    [run_ipv4 |-> TRUE, run_ipv6 |-> FALSE, clustered_db |-> TRUE, enable_ssl |-> TRUE,
     n_relays |-> 0, node_net |-> [ip |-> 0, first |-> 0, last |-> 0, prefixlen |-> 0],
     node_remote |-> None]

InitMain ==
    /\ mainPc = "start"
    /\ config = NoConfig
    /\ node_remote = <<>>
    /\ nodesCreated = FALSE
    /\ dbConnected = FALSE
    /\ nodesStarted = FALSE
    /\ mainOutcome = "running"

InitNetpol ==
    /\ npPhase = "config"
    /\ n_ns = 0
    /\ pods_ns_ratio = 0
    /\ all_ns = <<>>
    /\ iterPc = <<>>
    /\ npLog = <<>>

InitProvision ==
    /\ wpPc = "config"
    /\ wpWorker = 0
    /\ node_timeout_s = 0
    /\ chassis = [w \in Workers |-> "absent"]
    /\ polls = [w \in Workers |-> 0]
    /\ wpLog = <<>>
    /\ wpRaised = "none"

InitPorts ==
    /\ ppPhase = "config"
    /\ ppCfg = [n_pods_per_node |-> 0, n_ns |-> 0, pods_ns_ratio |-> 0, plen |-> 0,
                ext_plen |-> 0]
    /\ ppW = 0
    /\ ppLeft = 0
    /\ ppLast = 0
    /\ ppLports = [w \in Workers |-> <<>>]
    /\ ppNext = [w \in Workers |-> 0]
    /\ ppInFlight = <<>>
    /\ ppIter = <<>>

InitCentral ==
    /\ cnPc = "config"
    /\ raft_election_to = 0
    /\ cnTimeouts = <<>>
    /\ cnLog = <<>>

InitBringup ==
    /\ buPc = "config"
    /\ buCfg = [clustered_db |-> FALSE, n_workers |-> 0, n_tests |-> 0, mgmt_ip |-> 0]
    /\ buW = 0
    /\ buRouter = None
    /\ buJoin = None
    /\ buLb = None
    /\ buLog = <<>>

InitLb ==
    /\ lbPc = "config"
    /\ lbRows = [lr |-> {}, ls |-> {}]
    /\ lbAttached = [lr |-> {}, ls |-> {}]
    /\ lbCall = None

InitPing ==
    /\ pgPc = "idle"
    /\ ping_timeout_s = 0
    /\ pgReachable = FALSE
    /\ pgElapsed = 0
    /\ pgFailed = FALSE

InitWorker ==
    /\ wkLports = [w \in Workers |-> <<>>]
    /\ wkNext = [w \in Workers |-> 0]
    /\ wkLsps = {}
    /\ wkAllocated = [w \in Workers |-> <<>>]
    /\ wkLast = [op |-> "none", port |-> None, failed |-> {}, raised |-> FALSE]

Init ==
    /\ InitUuid
    /\ InitSync
    /\ InitNs
    /\ InitCluster
    /\ InitQps
    /\ InitBulk
    /\ InitDs
    /\ InitMain
    /\ InitNetpol
    /\ InitProvision
    /\ InitPorts
    /\ InitCentral
    /\ InitBringup
    /\ InitLb
    /\ InitPing
    /\ InitWorker

(***************************************************************************)
(* The calls that enter the UUID-retry paths.                              *)
(***************************************************************************)
StartCall(o, n) ==
    /\ pc \in {"idle", "returned", "raised"}
    /\ ncalls < MaxCalls
    /\ ncalls' = ncalls + 1
    /\ op' = o
    /\ reqName' = n
    /\ pc' = IF o \in UuidOps THEN "uuid_loop" ELSE "dbc_loop"
    /\ attempt' = 0
    /\ lookups' = 0
    /\ hist' = <<>>
    /\ written' = <<>>
    /\ dupInsert' = FALSE
    /\ ret' = NoneResult
    /\ UNCHANGED <<rows, nextUuid>>
    /\ FrameUuid

lr_add(n)      == StartCall("lr_add", n)
ls_add(n)      == StartCall("ls_add", n)
ls_port_add(n) == StartCall("ls_port_add", n)
create_lb(n)   == StartCall("create_lb", n)
create_lbg(n)  == StartCall("create_lbg", n)

(***************************************************************************)
(* One iteration of the loop of uuid_transaction: build the add command    *)
(* with may_exist, execute it, read cmd.result.uuid.                       *)
(***************************************************************************)
uuid_transaction ==
    /\ pc = "uuid_loop"
    /\ attempt < MAX_RETRY
    /\ \E outcome \in CommitOutcomes, unacked \in UnackedResults :
        LET t       == TableOf(op)
            present == RowsNamed(rows, t, reqName)
            hit     == may_exist /\ present # {}
            writes  == ~hit /\ outcome \in {"ok", "ambiguous"}
            res     == IF hit THEN RowResult(FirstRow(present).uuid)
                       ELSE IF outcome = "ok" THEN RowResult(nextUuid)
                       ELSE unacked
        IN  /\ rows' = IF writes
                       THEN rows \cup {[table |-> t, name |-> reqName, uuid |-> nextUuid]}
                       ELSE rows
            /\ nextUuid' = IF writes THEN nextUuid + 1 ELSE nextUuid
            /\ written' = IF writes THEN Append(written, nextUuid) ELSE written
            /\ dupInsert' = (writes /\ present # {})
            /\ attempt' = attempt + 1
            /\ hist' = Append(hist, IF hit THEN "hit" ELSE outcome)
            /\ IF UuidAccessRaises(res)
               THEN /\ pc' = pc                      \* except AttributeError: continue
                    /\ ret' = ret
               ELSE /\ pc' = "returned"              \* return cmd.result.uuid
                    /\ ret' = UuidResult(res.uuid)
    /\ UNCHANGED <<op, reqName, lookups, ncalls>>
    /\ FrameUuid

(***************************************************************************)
(* What get_func's command leaves in its result: lb_get yields the row     *)
(* view, db_get(..., "uuid") the value of the uuid column; nothing when no *)
(* row has the name.                                                       *)
(***************************************************************************)
get_func(o, rs, n) ==
    LET found == RowsNamed(rs, TableOf(o), n)
    IN  IF found = {} THEN NoneResult
        ELSE IF o = "create_lb" THEN RowResult(FirstRow(found).uuid)
        ELSE UuidResult(FirstRow(found).uuid)

(***************************************************************************)
(* One iteration of the loop of db_create_transaction: a plain db_create,  *)
(* then "return cmd.result", and in the AttributeError handler the lookup. *)
(***************************************************************************)
db_create_transaction ==
    /\ pc = "dbc_loop"
    /\ attempt < MAX_RETRY
    /\ \E outcome \in CommitOutcomes, unacked \in UnackedResults :
        LET t        == TableOf(op)
            present  == RowsNamed(rows, t, reqName)
            writes   == outcome \in {"ok", "ambiguous"}
            rowsNow  == IF writes
                        THEN rows \cup {[table |-> t, name |-> reqName, uuid |-> nextUuid]}
                        ELSE rows
            res      == IF outcome = "ok" THEN UuidResult(nextUuid) ELSE unacked
            got      == get_func(op, rowsNow, reqName)
        IN  /\ rows' = rowsNow
            /\ nextUuid' = IF writes THEN nextUuid + 1 ELSE nextUuid
            /\ written' = IF writes THEN Append(written, nextUuid) ELSE written
            /\ dupInsert' = (writes /\ present # {})
            /\ attempt' = attempt + 1
            /\ hist' = Append(hist, outcome)
            /\ IF ~ResultAccessRaises(res)
               THEN /\ pc' = "returned"              \* return cmd.result
                    /\ ret' = res
                    /\ lookups' = lookups
               ELSE /\ lookups' = lookups + 1        \* cmd = get_func(); cmd.execute()
                    /\ IF ~ResultAccessRaises(got)
                       THEN pc' = "returned" /\ ret' = got
                       ELSE pc' = pc /\ ret' = ret
    /\ UNCHANGED <<op, reqName, ncalls>>
    /\ FrameUuid

(***************************************************************************)
(* The loop ran MAX_RETRY times without returning.                         *)
(***************************************************************************)
UUIDTransactionError ==
    /\ pc \in {"uuid_loop", "dbc_loop"}
    /\ attempt = MAX_RETRY
    /\ pc' = "raised"
    /\ UNCHANGED <<rows, nextUuid, op, reqName, attempt, lookups, hist, written,
                   dupInsert, ret, ncalls>>
    /\ FrameUuid

(***************************************************************************)
(* Claims about the UUID-retry paths.                                      *)
(***************************************************************************)
\* the call in progress has returned to its caller
Returned == pc = "returned"

\* the returned value is the UUID of an NB row of the requested table and name
ReturnsRowOfRequest ==
    /\ ret.tag = "uuid"
    /\ \E r \in rows : /\ r.uuid = ret.uuid
                       /\ r.table = TableOf(op)
                       /\ r.name = reqName

\* some step of the call produced the UUID of a row: an acknowledged create,
\* a may_exist hit, or a lookup
YieldedUuid ==
    /\ hist # <<>>
    /\ hist[Len(hist)] \in {"ok", "hit"} \/ lookups > 0

\* C1: every value a create of the UUID-retry path (uuid_transaction or
\* db_create_transaction) returns is the UUID of a row that exists in the NB
\* and carries the requested name; never None, never another row's UUID.
C1_ReturnedUuidNamesRequestedRow ==
    Returned => ReturnsRowOfRequest

\* C5: a create of the UUID-retry path makes at most MAX_RETRY attempts, and
\* when no attempt (nor lookup) yields a UUID it ends in UUIDTransactionError
\* after the MAX_RETRY-th attempt instead of returning a value.
C5_BoundedRetryThenError ==
    /\ attempt <= MAX_RETRY
    /\ pc = "raised" => attempt = MAX_RETRY
    /\ Returned => YieldedUuid

\* C6: when the first commit of lr_add(name) is hit by a disconnect but wrote
\* the row, the second attempt finds the row and lr_add returns the UUID of
\* that row; no further attempt is made (at most MAX_RETRY in total).
C6_LrAddRecoversExistingRow ==
    (op = "lr_add" /\ Len(hist) >= 2 /\ hist[1] = "ambiguous") =>
        /\ Returned
        /\ attempt = 2
        /\ attempt <= MAX_RETRY
        /\ hist[2] = "hit"
        /\ written # <<>>
        /\ ret = UuidResult(written[1])
        /\ RowsNamed(rows, "Logical_Router", reqName) =
               {[table |-> "Logical_Router", name |-> reqName, uuid |-> written[1]]}

C6_Witness ==
    /\ op = "lr_add"
    /\ hist = <<"ambiguous", "hit">>
    /\ Returned
    /\ ret = UuidResult(written[1])

\* C7 (as stated): every attempt of either path is create-if-not-exists, so
\* no attempt inserts a row whose key is already present and the NB holds at
\* most one row per (table, name).
C7_EveryAttemptIdempotent ==
    /\ ~dupInsert
    /\ \A r \in rows, q \in rows :
           (r.table = q.table /\ r.name = q.name) => r.uuid = q.uuid

\* C7 (amended): the attempts of uuid_transaction are create-if-not-exists,
\* so Logical_Router, Logical_Switch and Logical_Switch_Port hold at most one
\* row per name whatever the commits meet; db_create_transaction issues a
\* plain insert, and one call of either path inserts at most one row.
C7_UuidPathIdempotent ==
    /\ \A r \in rows, q \in rows :
           (r.table = q.table /\ r.name = q.name
              /\ r.table \in {TableOf(o) : o \in UuidOps}) => r.uuid = q.uuid
    /\ dupInsert => op \in DbcOps
    /\ Len(written) <= 1

C7_Witness ==
    /\ op \in UuidOps
    /\ Len(hist) >= 3
    /\ hist[Len(hist)] = "hit"
    /\ Cardinality(RowsNamed(rows, TableOf(op), reqName)) = 1

\* C8: in db_create_transaction a create whose result carries no UUID is
\* followed by a lookup before any re-issue, the value returned after such a
\* create is the UUID of the row found, and a re-issue happens only after a
\* lookup that found nothing.
C8_LookupBeforeReissue ==
    (op \in DbcOps /\ hist # <<>>) =>
        /\ (hist[Len(hist)] # "ok") => lookups >= 1
        /\ lookups >= attempt - 1
        /\ Returned => ReturnsRowOfRequest

NextUuid ==
    \/ \E n \in Names : lr_add(n)
    \/ \E n \in Names : ls_add(n)
    \/ \E n \in Names : ls_port_add(n)
    \/ \E n \in Names : create_lb(n)
    \/ \E n \in Names : create_lbg(n)
    \/ uuid_transaction
    \/ db_create_transaction
    \/ UUIDTransactionError

SpecUuid == Init /\ [][NextUuid]_vars

(***************************************************************************)
(* The sync barrier: OvnNbctl.sync opens an NBTransaction with a wait type *)
(* and commits it on leaving the with block.                               *)
(***************************************************************************)
\* wait arguments a caller passes; "none" stands for None
WaitArgs == {"none", "sb", "hv", "HV", "bogus"}

\* options set_global may set
OptionKeys == {"use_logical_dp_groups", "northd_probe_interval"}

\* str.lower() on the wait arguments
Lower(w) == IF w = "HV" THEN "hv" ELSE w

\* a faulty variant of NBTransaction_wait_type: an unrecognised wait type is kept
NBTransaction_wait_type_kept(w) == IF w = "none" THEN "none" ELSE Lower(w)

\* NBTransaction.__init__: the wait type is lower-cased, and anything other
\* than sb or hv is ignored with a warning
NBTransaction_wait_type(w) ==
    IF w = "none" THEN "none"
    ELSE IF Lower(w) # "sb" /\ Lower(w) # "hv" THEN "none"
    ELSE Lower(w)

\* no transaction of this client is between its creation and its end
NoTxn == phase \in {"none", "Synchronized", "TimedOut"} /\ syncResult # "running"

\* set_global: a db_set on NB_Global.options, executed at once
set_global(o) ==
    /\ NoTxn
    /\ o \notin nbOptions
    /\ nbOptions' = nbOptions \cup {o}
    /\ UNCHANGED <<nb_cfg, sb_cfg, hv_cfg, phase, wait_type, timeout, elapsed,
                   next_cfg, atCommit, syncResult, nsyncs>>
    /\ FrameSync

\* sync(wait, timeout): create the transaction
sync(w, t) ==
    /\ NoTxn
    /\ nsyncs < MaxSyncs
    /\ nsyncs' = nsyncs + 1
    /\ phase' = "Pending"
    /\ wait_type' = NBTransaction_wait_type(w)
    /\ timeout' = t
    /\ elapsed' = 0
    /\ syncResult' = "running"
    /\ UNCHANGED <<nb_cfg, sb_cfg, hv_cfg, nbOptions, next_cfg, atCommit>>
    /\ FrameSync

\* pre_commit and the commit: nb_cfg is incremented inside the transaction
\* when a wait type is set
pre_commit ==
    /\ phase = "Pending"
    /\ nb_cfg' = IF wait_type # "none" THEN nb_cfg + 1 ELSE nb_cfg
    /\ next_cfg' = IF wait_type # "none" THEN nb_cfg + 1 ELSE next_cfg
    /\ atCommit' = nbOptions
    /\ phase' = "Committed"
    /\ UNCHANGED <<sb_cfg, hv_cfg, nbOptions, wait_type, timeout, elapsed,
                   syncResult, nsyncs>>
    /\ FrameSync

timeout_exceeded == elapsed >= timeout

Min(a, b) == IF a <= b THEN a ELSE b

\* nb_has_completed(next_cfg)
nb_has_completed(cfg) ==
    IF wait_type = "none" THEN TRUE
    ELSE LET cur_cfg == IF wait_type = "sb" THEN sb_cfg ELSE Min(sb_cfg, hv_cfg)
         IN  cur_cfg >= cfg

\* do_post_commit leaves its loop normally: no wait type, or the awaited
\* counter has reached next_cfg before the deadline
do_post_commit ==
    /\ phase = "Committed"
    /\ \/ wait_type = "none"
       \/ ~timeout_exceeded /\ nb_has_completed(next_cfg)
    /\ phase' = "Synchronized"
    /\ syncResult' = "returned"
    /\ UNCHANGED <<nb_cfg, sb_cfg, hv_cfg, nbOptions, wait_type, timeout, elapsed,
                   next_cfg, atCommit, nsyncs>>
    /\ FrameSync

\* a faulty variant of post_commit_timeout: the loop of do_post_commit does
\* not look at the deadline and goes on polling
post_commit_no_deadline ==
    /\ phase = "Committed"
    /\ wait_type # "none"
    /\ timeout_exceeded
    /\ UNCHANGED syncVars
    /\ FrameSync

\* a faulty variant of post_commit_timeout: the timeout undoes the transaction's increment
post_commit_timeout_rollback ==
    /\ phase = "Committed"
    /\ wait_type # "none"
    /\ timeout_exceeded
    /\ phase' = "TimedOut"
    /\ syncResult' = "returned"
    /\ nb_cfg' = nb_cfg - 1
    /\ UNCHANGED <<sb_cfg, hv_cfg, nbOptions, wait_type, timeout, elapsed,
                   next_cfg, atCommit, nsyncs>>
    /\ FrameSync

\* the loop of do_post_commit ends by the deadline: TimeoutException is
\* raised, and post_commit catches and logs it
post_commit_timeout ==
    /\ phase = "Committed"
    /\ wait_type # "none"
    /\ timeout_exceeded
    /\ phase' = "TimedOut"
    /\ syncResult' = "returned"
    /\ UNCHANGED <<nb_cfg, sb_cfg, hv_cfg, nbOptions, wait_type, timeout, elapsed,
                   next_cfg, atCommit, nsyncs>>
    /\ FrameSync

\* time passes while the poller blocks
Tick ==
    /\ phase = "Committed"
    /\ wait_type # "none"
    /\ ~timeout_exceeded
    /\ elapsed' = elapsed + 1
    /\ UNCHANGED <<nb_cfg, sb_cfg, hv_cfg, nbOptions, phase, wait_type, timeout,
                   next_cfg, atCommit, syncResult, nsyncs>>
    /\ FrameSync

\* the control plane reports progress in NB_Global: sb_cfg once the SB has
\* caught up with nb_cfg, hv_cfg once the chassis have
northd_sb_cfg ==
    /\ sb_cfg < nb_cfg
    /\ sb_cfg' = sb_cfg + 1
    /\ UNCHANGED <<nb_cfg, hv_cfg, nbOptions, phase, wait_type, timeout, elapsed,
                   next_cfg, atCommit, syncResult, nsyncs>>
    /\ FrameSync

northd_hv_cfg ==
    /\ hv_cfg < nb_cfg
    /\ hv_cfg' = hv_cfg + 1
    /\ UNCHANGED <<nb_cfg, sb_cfg, nbOptions, phase, wait_type, timeout, elapsed,
                   next_cfg, atCommit, syncResult, nsyncs>>
    /\ FrameSync

NextSync ==
    \/ \E o \in OptionKeys : set_global(o)
    \/ \E w \in WaitArgs, t \in 1..MaxTimeout : sync(w, t)
    \/ pre_commit
    \/ do_post_commit
    \/ post_commit_timeout
    \/ Tick
    \/ northd_sb_cfg
    \/ northd_hv_cfg

SpecSync == Init /\ [][NextSync]_vars

C4_TimeoutKeepsCommitted ==
    phase = "TimedOut" =>
        /\ nb_cfg = next_cfg
        /\ atCommit \subseteq nbOptions

C4_Witness ==
    /\ phase = "TimedOut"
    /\ wait_type = "hv"
    /\ hv_cfg < sb_cfg
    /\ sb_cfg = next_cfg
    /\ atCommit # {}
    /\ nb_cfg = next_cfg

(***************************************************************************)
(* The life of one sync: Pending, Committed, then Synchronized or TimedOut. *)
(***************************************************************************)
\* the transaction is committed, the loop polls while time passes, and the
\* loop is left when its condition says so
SpecSyncFair ==
    /\ SpecSync
    /\ WF_vars(pre_commit)
    /\ WF_vars(Tick)
    /\ WF_vars(do_post_commit)
    /\ WF_vars(post_commit_timeout)

SyncEnded == phase \in {"Synchronized", "TimedOut"}

PhaseSteps ==
    {<<"none", "Pending">>, <<"Pending", "Committed">>,
     <<"Committed", "Synchronized">>, <<"Committed", "TimedOut">>,
     <<"Synchronized", "Pending">>, <<"TimedOut", "Pending">>}

\* C33: a sync goes from Pending to Committed and from Committed to either
\* Synchronized or TimedOut, and to nothing else; the poll clock runs and the
\* sync ends only after the commit, with the nb_cfg increment of a sync that
\* waits in the NB; a sync that ended TimedOut has reached its deadline and
\* one that ended Synchronized with a wait type has not; and every sync ends,
\* even when sb_cfg and hv_cfg never move.
C33_SyncLifeCycle ==
    /\ [][phase' # phase => <<phase, phase'>> \in PhaseSteps]_vars
    /\ [][elapsed' # elapsed /\ phase' # "Pending" =>
             phase = "Committed" /\ (wait_type # "none" => nb_cfg = next_cfg)]_vars
    /\ [](phase = "Pending" => elapsed = 0 /\ syncResult = "running")
    /\ [](phase = "TimedOut" => elapsed >= timeout /\ wait_type # "none")
    /\ [](SyncEnded => syncResult # "running" /\ elapsed <= timeout)
    /\ (phase = "Pending" ~> SyncEnded)

\* a sync on hv ran into its deadline while sb_cfg and hv_cfg stood still
C33_Witness ==
    /\ phase = "TimedOut"
    /\ wait_type = "hv"
    /\ sb_cfg = 0
    /\ hv_cfg = 0
    /\ nb_cfg = 1
    /\ elapsed = timeout
    /\ timeout = 2

(***************************************************************************)
(* The nb_cfg counter and the wait types.                                  *)
(***************************************************************************)
\* the counter the loop of do_post_commit compares with next_cfg
cur_cfg == IF wait_type = "sb" THEN sb_cfg ELSE Min(sb_cfg, hv_cfg)

Waiting(w) == w \in {"sb", "hv", "HV"}

\* C34: a sync called with sb or hv (in any case of letters) has that wait
\* type, and one called with None or with anything else has none. Only the
\* commit of a sync with a wait type changes nb_cfg: it adds exactly one, and
\* the new value is the one the sync waits for: the sync is Synchronized only
\* when the awaited counter has reached it, and can be as soon as it has. The
\* commit of a sync without a wait type leaves nb_cfg as it is, and the sync
\* returns after the commit whatever sb_cfg and hv_cfg are, with no poll.
C34_NbCfgIncrementedOnceAndAwaited ==
    /\ [][\A w \in WaitArgs : (\E t \in 1..MaxTimeout : sync(w, t)) =>
             wait_type' = IF Waiting(w) THEN Lower(w) ELSE "none"]_vars
    /\ [][nb_cfg' # nb_cfg =>
             /\ phase = "Pending" /\ phase' = "Committed"
             /\ wait_type \in {"sb", "hv"}
             /\ nb_cfg' = nb_cfg + 1
             /\ next_cfg' = nb_cfg']_vars
    /\ [][phase = "Pending" /\ phase' = "Committed" =>
             nb_cfg' = IF wait_type \in {"sb", "hv"} THEN nb_cfg + 1 ELSE nb_cfg]_vars
    /\ [][phase = "Committed" /\ phase' = "Synchronized" /\ wait_type # "none" =>
             cur_cfg >= next_cfg /\ next_cfg = nb_cfg]_vars
    /\ [](phase = "Committed" /\ wait_type # "none" /\ ~timeout_exceeded =>
             (ENABLED do_post_commit <=> cur_cfg >= next_cfg))
    /\ [](wait_type = "none" =>
             /\ elapsed = 0
             /\ phase # "TimedOut"
             /\ ~ENABLED Tick
             /\ phase = "Committed" => ENABLED do_post_commit)

\* the second sync of the client, on sb, is Synchronized at nb_cfg 2 while
\* hv_cfg is behind
C34_Witness ==
    /\ phase = "Synchronized"
    /\ wait_type = "sb"
    /\ nb_cfg = 2
    /\ next_cfg = 2
    /\ sb_cfg = 2
    /\ hv_cfg < 2

(***************************************************************************)
(* The namespace/policy model.  A port is identified with its IP; the      *)
(* external host (the ext-gw side) is ExtHost.                             *)
(***************************************************************************)
Ports == 1..NumPorts
ExtHost == 0

Range(f) == {f[i] : i \in DOMAIN f}

\* the lists of ports a caller passes: 1..MaxBatch distinct ports in the
\* order provision_ports returned them
PortLists ==
    {l \in UNION {[1..k -> Ports] : k \in 1..MaxBatch} :
        \A i \in DOMAIN l, j \in DOMAIN l : i < j => l[i] < l[j]}

\* an ACL row: the port group it is attached to and its match
\*   src_as_outport  : ip4.src == $as && outport == @pg
\*   dst_as_inport   : ip4.dst == $as && inport == @pg
\*   outport_arp     : outport == @pg && arp
\*   inport_arp      : inport == @pg && arp
\*   src_ips_outport : ip4.src == {ips} && outport == @pg
Acl(name, prio, kind, ips, pg, verdict) ==
    [name |-> name, direction |-> "to-lport", priority |-> prio,
     kind |-> kind, ips |-> ips, pg |-> pg, verdict |-> verdict]

\* a command changes the NB when it is executed
Execute(as, acl) == as \cup {acl}

\* OvnNbctl.acl_add with the command executed
acl_add_executed(as, acl) == Execute(as, acl)

\* OvnNbctl.acl_add: the pg_acl_add command is built and dropped; neither
\* branch executes it
acl_add(as, acl) == as

\* Port_Group.ports holds weak references to Logical_Switch_Port rows: the
\* NB keeps no reference to a row that does not exist
Live(ps) == ps \cap lsps

\* port_group_add_ports on the three core groups
AddToCorePgs(members, ps) == [g \in CorePgs |-> members[g] \cup Live(ps)]

\* the port groups after enforce()
Enforced == IF enforcing THEN pgMembers ELSE AddToCorePgs(pgMembers, Range(nsPorts))

\* the port_group_add_ports calls enforce() issues
EnforceCalls == IF enforcing THEN 0 ELSE 3

\* an enforce() call: the first one, or one after it
EnforceCall(n) ==
    [call |-> IF lastEnforce.call = "never" THEN "first" ELSE "later", pgCalls |-> n]

\* what a policy call leaves alone
PolicyKeeps ==
    UNCHANGED <<nsPorts, asAddrs, nbPgs, asExists, subPgs, subAs, delLog,
                unprovisioned, clVars>>

\* what a call that is not enforce() and does not call it leaves alone
NoEnforce == UNCHANGED lastEnforce

\* a faulty variant of add_ports: the ports are added to the port groups
\* whether the namespace is enforcing or not
add_ports_always_grouped(ps) ==
    /\ ~unprovisioned
    /\ Range(ps) \subseteq lsps \ Range(nsPorts)
    /\ nsPorts' = nsPorts \o ps
    /\ asAddrs' = asAddrs \cup Range(ps)
    /\ pgMembers' = AddToCorePgs(pgMembers, Range(ps))
    /\ NoEnforce
    /\ UNCHANGED <<enforcing, acls, applied, nbPgs, asExists, subPgs, subAs, delLog,
                   unprovisioned, clVars>>
    /\ FrameNs

\* Namespace.add_ports(ports), ports returned by provision_ports and not yet
\* in the namespace
add_ports(ps) ==
    /\ ~unprovisioned
    /\ Range(ps) \subseteq lsps \ Range(nsPorts)
    /\ nsPorts' = nsPorts \o ps
    /\ asAddrs' = asAddrs \cup Range(ps)
    /\ pgMembers' = IF enforcing THEN AddToCorePgs(pgMembers, Range(ps)) ELSE pgMembers
    /\ NoEnforce
    /\ UNCHANGED <<enforcing, acls, applied, nbPgs, asExists, subPgs, subAs, delLog,
                   unprovisioned, clVars>>
    /\ FrameNs

\* a faulty variant of enforce: no early return when already enforcing
enforce_again ==
    /\ ~unprovisioned
    /\ enforcing' = TRUE
    /\ pgMembers' = AddToCorePgs(pgMembers, Range(nsPorts))
    /\ lastEnforce' = EnforceCall(3)
    /\ UNCHANGED <<acls, applied>>
    /\ PolicyKeeps
    /\ FrameNs

\* Namespace.enforce()
enforce ==
    /\ ~unprovisioned
    /\ enforcing' = TRUE
    /\ pgMembers' = Enforced
    /\ lastEnforce' = EnforceCall(EnforceCalls)
    /\ UNCHANGED <<acls, applied>>
    /\ PolicyKeeps
    /\ FrameNs

\* the address-set reference of a match: the set is resolved when the ACL is evaluated
AsRef == {"as"}

default_deny ==
    /\ ~unprovisioned
    /\ enforcing' = TRUE
    /\ pgMembers' = Enforced
    /\ acls' = acl_add(acl_add(acl_add(acl_add(acls,
                 Acl("pg_deny_igr", ACL_DEFAULT_DENY_PRIO, "src_as_outport",
                     AsRef, "pg_deny_igr", "drop")),
                 Acl("pg_deny_egr", ACL_DEFAULT_DENY_PRIO, "dst_as_inport",
                     AsRef, "pg_deny_egr", "drop")),
                 Acl("pg_deny_igr", ACL_DEFAULT_ALLOW_ARP_PRIO, "outport_arp",
                     {}, "pg_deny_igr", "allow")),
                 Acl("pg_deny_egr", ACL_DEFAULT_ALLOW_ARP_PRIO, "inport_arp",
                     {}, "pg_deny_egr", "allow"))
    /\ applied' = applied \cup {"default_deny"}
    /\ lastEnforce' = EnforceCall(EnforceCalls)
    /\ PolicyKeeps
    /\ FrameNs

allow_within_namespace ==
    /\ ~unprovisioned
    /\ enforcing' = TRUE
    /\ pgMembers' = Enforced
    /\ acls' = acl_add(acl_add(acls,
                 Acl("pg", ACL_NETPOL_ALLOW_PRIO, "src_as_outport",
                     AsRef, "pg", "allow-related")),
                 Acl("pg", ACL_NETPOL_ALLOW_PRIO, "dst_as_inport",
                     AsRef, "pg", "allow-related"))
    /\ applied' = applied \cup {"allow_within_namespace"}
    /\ lastEnforce' = EnforceCall(EnforceCalls)
    /\ PolicyKeeps
    /\ FrameNs

\* allow_from_external(external_ips, include_ext_gw=True): the ext-gw of the
\* first port is appended to the allowed sources
allow_from_external ==
    /\ ~unprovisioned
    /\ nsPorts # <<>>
    /\ enforcing' = TRUE
    /\ pgMembers' = Enforced
    /\ acls' = acl_add(acls,
                 Acl("pg", ACL_NETPOL_ALLOW_PRIO, "src_ips_outport",
                     {ExtHost}, "pg", "allow-related"))
    /\ applied' = applied \cup {"allow_from_external"}
    /\ lastEnforce' = EnforceCall(EnforceCalls)
    /\ PolicyKeeps
    /\ FrameNs

\* ---- evaluation of the ACLs of the NB on an IP packet from src to dst ----
Matches(a, src, dst) ==
    CASE a.kind = "src_as_outport"  -> src \in asAddrs /\ dst \in pgMembers[a.pg]
      [] a.kind = "dst_as_inport"   -> dst \in asAddrs /\ src \in pgMembers[a.pg]
      [] a.kind = "src_ips_outport" -> src \in a.ips /\ dst \in pgMembers[a.pg]
      [] OTHER                      -> FALSE      \* the arp matches: not an IP packet

\* the matching ACL of highest priority decides; with no match the packet passes
Allowed(src, dst) ==
    LET m == {a \in acls : Matches(a, src, dst)}
    IN  \/ m = {}
        \/ \E a \in m : /\ \A b \in m : b.priority <= a.priority
                        /\ a.verdict \in {"allow", "allow-related"}

(***************************************************************************)
(* The cluster: provisioning and unprovisioning of ports.  The k-th port   *)
(* provisioned is port k.                                                  *)
(***************************************************************************)
\* a faulty variant of select_worker_for_port: the index is not advanced
select_worker_no_advance(last) == last % NumWorkers

\* Cluster.select_worker_for_port: the value last_selected_worker takes, the
\* index of the worker returned
select_worker_for_port(last) == (last + 1) % NumWorkers

\* the cluster state a loop over ports works on
ClusterNow ==
    [lsps |-> lsps, metadata |-> metadata, lports |-> lports,
     next_lport_index |-> next_lport_index,
     last_selected_worker |-> last_selected_worker,
     bound |-> bound, pgMembers |-> pgMembers, subPgs |-> subPgs,
     raised |-> FALSE]

\* WorkerNode.provision_port on worker w: ls_port_add, lports.append,
\* next_lport_index += 1
provision_port(c, w) ==
    LET port == Len(c.metadata) + 1
    IN  [c EXCEPT !.lsps = @ \cup {port},
                  !.metadata = Append(@, w),
                  !.lports[w] = Append(@, port),
                  !.next_lport_index[w] = @ + 1]

\* WorkerNode.bind_port(port) on worker w: the port is added to br-int
bind_port(c, w, port) == [c EXCEPT !.bound[w] = @ \cup {port}]

\* WorkerNode.unbind_port(port) on worker w: the port is deleted from br-int
unbind_port(c, w, port) == [c EXCEPT !.bound[w] = @ \ {port}]

\* WorkerNode.provision_ports(cluster, 1) on worker w: the port is
\* provisioned, then bound
WorkerNode_provision_ports(c, w) ==
    bind_port(provision_port(c, w), w, Len(c.metadata) + 1)

\* the loop of Cluster.provision_ports(n_ports): one port on the selected
\* worker per round
RECURSIVE ProvisionLoop(_, _)
ProvisionLoop(c, n) ==
    IF n = 0 THEN c
    ELSE LET w == select_worker_for_port(c.last_selected_worker)
         IN  ProvisionLoop(WorkerNode_provision_ports(
                               [c EXCEPT !.last_selected_worker = w], w), n - 1)

\* Cluster.provision_ports(n_ports)
provision_ports(n) ==
    /\ Len(metadata) + n <= MaxProvisioned
    /\ LET c == ProvisionLoop(ClusterNow, n)
       IN  /\ lsps' = c.lsps
           /\ metadata' = c.metadata
           /\ lports' = c.lports
           /\ next_lport_index' = c.next_lport_index
           /\ last_selected_worker' = c.last_selected_worker
           /\ bound' = c.bound
    /\ NoEnforce
    /\ UNCHANGED <<nsPorts, enforcing, pgMembers, asAddrs, acls, applied, nbPgs,
                   asExists, subPgs, subAs, delLog, unprovisioned>>
    /\ FrameNs

\* list.remove(x): the first occurrence of x is removed
RECURSIVE Remove(_, _)
Remove(l, x) ==
    IF l = <<>> THEN <<>>
    ELSE IF Head(l) = x THEN Tail(l)
    ELSE <<Head(l)>> \o Remove(Tail(l), x)

\* "for port in ports: self.ports.remove(port)"
RECURSIVE RemoveEach(_, _)
RemoveEach(l, ports) ==
    IF ports = <<>> THEN l ELSE RemoveEach(Remove(l, Head(ports)), Tail(ports))

\* a faulty variant of ls_port_del: the port groups keep their references to
\* the deleted row
ls_port_del_keeps_refs(c, port) == [c EXCEPT !.lsps = @ \ {port}]

\* OvnNbctl.ls_port_del(port): the row is deleted; the NB drops the weak
\* references the port groups hold to it
ls_port_del(c, port) ==
    [c EXCEPT !.lsps = @ \ {port},
              !.pgMembers = [g \in CorePgs |-> @[g] \ {port}],
              !.subPgs = [k \in DOMAIN @ |-> [@[k] EXCEPT !.members = @ \ {port}]]]

\* a faulty variant of PortWorker: every port is dispatched to worker 0
PortWorkerFirst(c, port) == 0

\* "worker = port.metadata": the worker a port is dispatched to
PortWorker(c, port) == c.metadata[port]

\* WorkerNode.unprovision_port(cluster, port) on worker w: ls_port_del,
\* unbind_port, then lports.remove, which raises ValueError for a port the
\* worker does not hold
unprovision_port(c, w, port) ==
    LET d == unbind_port(ls_port_del(c, port), w, port)
    IN  IF port \notin Range(d.lports[w])
        THEN [d EXCEPT !.raised = TRUE]
        ELSE [d EXCEPT !.lports[w] = Remove(@, port)]

\* the loop of Cluster.unprovision_ports(ports); an exception ends it
RECURSIVE UnprovisionLoop(_, _)
UnprovisionLoop(c, ports) ==
    IF ports = <<>> THEN c
    ELSE LET port == Head(ports)
             d    == unprovision_port(c, PortWorker(c, port), port)
         IN  IF d.raised THEN d ELSE UnprovisionLoop(d, Tail(ports))

\* Cluster.unprovision_ports(ports), ports that exist
Cluster_unprovision_ports(ps) ==
    /\ Range(ps) \subseteq lsps
    /\ LET c == UnprovisionLoop(ClusterNow, ps)
       IN  /\ lsps' = c.lsps
           /\ lports' = c.lports
           /\ bound' = c.bound
           /\ pgMembers' = c.pgMembers
           /\ subPgs' = c.subPgs
           /\ NoEnforce
    /\ UNCHANGED <<nsPorts, enforcing, asAddrs, acls, applied, nbPgs, asExists,
                   subAs, delLog, unprovisioned>>
    /\ UNCHANGED <<metadata, next_lport_index, last_selected_worker>>
    /\ FrameNs

\* Namespace.unprovision_ports(ports), ports of the namespace
Namespace_unprovision_ports(ps) ==
    /\ ~unprovisioned
    /\ Range(ps) \subseteq Range(nsPorts)
    /\ nsPorts' = RemoveEach(nsPorts, ps)
    /\ LET c == UnprovisionLoop(ClusterNow, ps)
       IN  /\ lsps' = c.lsps
           /\ lports' = c.lports
           /\ bound' = c.bound
           /\ pgMembers' = c.pgMembers
           /\ subPgs' = c.subPgs
           /\ NoEnforce
    /\ UNCHANGED <<enforcing, asAddrs, acls, applied, nbPgs, asExists, subAs,
                   delLog, unprovisioned>>
    /\ UNCHANGED <<metadata, next_lport_index, last_selected_worker>>
    /\ FrameNs

\* Namespace.create_sub_ns(ports), ports of the namespace: a new port group
\* holding the ports and a new address set holding their addresses
create_sub_ns(ps) ==
    /\ ~unprovisioned
    /\ Len(subPgs) < MaxSubNs
    /\ Range(ps) \subseteq Range(nsPorts)
    /\ subPgs' = Append(subPgs, [exists |-> TRUE, members |-> Live(Range(ps))])
    /\ subAs' = Append(subAs, [exists |-> TRUE, addrs |-> Range(ps)])
    /\ NoEnforce
    /\ UNCHANGED <<nsPorts, enforcing, pgMembers, asAddrs, acls, applied, nbPgs,
                   asExists, delLog, unprovisioned, clVars>>
    /\ FrameNs

\* a deletion the NB executed
Deleted(table, name, sub) == [table |-> table, name |-> name, sub |-> sub]

\* OvnNbctl.port_group_del(pg): the pg_del command is executed
port_group_del(pgs, g) == pgs \ {g}

\* OvnNbctl.address_set_del(addr_set): the address_set_del command is built
\* and dropped, the row stays
address_set_del(row) == row

\* a faulty variant of UnprovisionDeletions: the sub port groups go first
UnprovisionDeletionsSubFirst(n) ==
    [k \in 1..n |-> Deleted("Port_Group", "sub_pg", k)]
    \o <<Deleted("Port_Group", "pg_deny_igr", 0),
         Deleted("Port_Group", "pg_deny_egr", 0),
         Deleted("Port_Group", "pg", 0)>>

\* the deletions unprovision() executes on a namespace with n sub port
\* groups, in order: pg_def_deny_igr, pg_def_deny_egr, pg, then the loop over
\* sub_pg; the address_set_del calls between and after them execute nothing
UnprovisionDeletions(n) ==
    <<Deleted("Port_Group", "pg_deny_igr", 0),
      Deleted("Port_Group", "pg_deny_egr", 0),
      Deleted("Port_Group", "pg", 0)>>
    \o [k \in 1..n |-> Deleted("Port_Group", "sub_pg", k)]

\* Namespace.unprovision(): the ports, the three core port groups, the
\* address set, the sub port groups, the sub address sets, in this order; an
\* exception of Cluster.unprovision_ports ends the call
unprovision ==
    /\ ~unprovisioned
    /\ LET c == UnprovisionLoop(ClusterNow, nsPorts)
       IN  /\ lsps' = c.lsps
           /\ lports' = c.lports
           /\ bound' = c.bound
           /\ NoEnforce
           /\ IF c.raised
              THEN /\ pgMembers' = c.pgMembers
                   /\ subPgs' = c.subPgs
                   /\ UNCHANGED <<nbPgs, asExists, subAs, delLog, unprovisioned>>
              ELSE /\ nbPgs' = port_group_del(port_group_del(port_group_del(nbPgs,
                                   "pg_deny_igr"), "pg_deny_egr"), "pg")
                   /\ pgMembers' = [g \in CorePgs |-> {}]
                   /\ asExists' = address_set_del(asExists)
                   /\ subPgs' = [k \in DOMAIN subPgs |-> [exists |-> FALSE, members |-> {}]]
                   /\ subAs' = [k \in DOMAIN subAs |-> address_set_del(subAs[k])]
                   /\ delLog' = delLog \o UnprovisionDeletions(Len(subPgs))
                   /\ unprovisioned' = TRUE
    /\ UNCHANGED <<nsPorts, enforcing, asAddrs, acls, applied>>
    /\ UNCHANGED <<metadata, next_lport_index, last_selected_worker>>
    /\ FrameNs

\* the network-policy calls on a namespace whose ports the cluster provisions
NextNs ==
    \/ \E n \in 1..MaxBatch : provision_ports(n)
    \/ \E ps \in PortLists : add_ports(ps)
    \/ enforce
    \/ default_deny
    \/ allow_within_namespace
    \/ allow_from_external

SpecNs == Init /\ [][NextNs]_vars

\* the life of a namespace: ports come and go, sub-namespaces are created,
\* the namespace is torn down
NextLife ==
    \/ \E n \in 1..MaxBatch : provision_ports(n)
    \/ \E ps \in PortLists : add_ports(ps)
    \/ enforce
    \/ \E ps \in PortLists : create_sub_ns(ps)
    \/ \E ps \in PortLists : Namespace_unprovision_ports(ps)
    \/ \E ps \in PortLists : Cluster_unprovision_ports(ps)
    \/ unprovision

SpecLife == Init /\ [][NextLife]_vars

\* C9: once default_deny() and allow_within_namespace() have completed on a
\* namespace, and until allow_from_external() is applied, the ACLs of the NB
\* allow traffic between two ports of the namespace and drop traffic from the
\* external host to a port of the namespace.
C9_DenyExternalAllowInternal ==
    ({"default_deny", "allow_within_namespace"} \subseteq applied
        /\ "allow_from_external" \notin applied) =>
        /\ \A p \in Range(nsPorts), q \in Range(nsPorts) : p # q => Allowed(p, q)
        /\ \A q \in Range(nsPorts) : ~Allowed(ExtHost, q)

\* C14: add_ports(ps) always appends ps to the ports of the namespace and
\* adds their addresses to the address set of the namespace; it adds ps to
\* the three port groups if and only if the namespace is enforcing when it is
\* called, and leaves the port groups as they are otherwise.
C14_AddPortsGroupsIffEnforcing ==
    [][Len(nsPorts') > Len(nsPorts) =>
          \E ps \in PortLists :
              /\ nsPorts' = nsPorts \o ps
              /\ asAddrs' = asAddrs \cup Range(ps)
              /\ enforcing =>
                    \A g \in CorePgs : pgMembers'[g] = pgMembers[g] \cup Range(ps)
              /\ ~enforcing => pgMembers' = pgMembers
      ]_vars

\* ports were added to a namespace that is not enforcing
C14_Witness ==
    /\ ~enforcing
    /\ nsPorts # <<>>
    /\ asAddrs = Range(nsPorts)
    /\ \A g \in CorePgs : pgMembers[g] = {}

\* C15: enforce() is idempotent: the first call sets enforcing and adds the
\* ports of the namespace to each of the three port groups; a later call
\* issues no port-group operation and changes neither the namespace nor the
\* NB.  Under any interleaving of add_ports, enforce and the policy calls,
\* every port of an enforcing namespace is in all three port groups.
C15_EnforceIdempotent ==
    [][/\ (~enforcing /\ enforcing') =>
              /\ pgMembers' = [g \in CorePgs |-> pgMembers[g] \cup Range(nsPorts)]
              /\ lastEnforce' = [call |-> "first", pgCalls |-> 3]
       /\ (enforcing /\ lastEnforce' # lastEnforce) =>
              /\ lastEnforce' = [call |-> "later", pgCalls |-> 0]
              /\ UNCHANGED <<nsPorts, enforcing, pgMembers, asAddrs, nbPgs, lsps>>
              /\ applied' = applied => UNCHANGED acls
       /\ enforcing' => \A g \in CorePgs : Range(nsPorts') \subseteq pgMembers'[g]
      ]_vars

\* enforce() was called again on an enforcing namespace that has ports
C15_Witness ==
    /\ enforcing
    /\ lastEnforce.call = "later"
    /\ applied = {}
    /\ nsPorts # <<>>
    /\ \A g \in CorePgs : pgMembers[g] = Range(nsPorts)

\* the four ACLs of default_deny()
DefaultDenyAcls ==
    {Acl("pg_deny_igr", ACL_DEFAULT_DENY_PRIO, "src_as_outport", AsRef, "pg_deny_igr", "drop"),
     Acl("pg_deny_egr", ACL_DEFAULT_DENY_PRIO, "dst_as_inport", AsRef, "pg_deny_egr", "drop"),
     Acl("pg_deny_igr", ACL_DEFAULT_ALLOW_ARP_PRIO, "outport_arp", {}, "pg_deny_igr", "allow"),
     Acl("pg_deny_egr", ACL_DEFAULT_ALLOW_ARP_PRIO, "inport_arp", {}, "pg_deny_egr", "allow")}

\* C16: after default_deny() has returned the namespace is enforcing and the
\* NB holds its four ACLs: a drop at priority 1 matching the address set of
\* the namespace on each of the two deny port groups and an allow for ARP at
\* priority 2 on each of them.
C16_DefaultDenyInstallsFourAcls ==
    "default_deny" \in applied =>
        /\ enforcing
        /\ DefaultDenyAcls \subseteq acls

C18_NothingLeftAfterUnprovision ==
    unprovisioned =>
        /\ nbPgs = {}
        /\ \A k \in DOMAIN subPgs : ~subPgs[k].exists
        /\ ~asExists
        /\ \A k \in DOMAIN subAs : ~subAs[k].exists
        /\ Range(nsPorts) \cap lsps = {}
        /\ \A w \in Workers : Range(nsPorts) \cap Range(lports[w]) = {}

C20_RoundRobinOverWorkers ==
    /\ last_selected_worker \in Workers
    /\ \A p \in DOMAIN metadata :
          (p + 1) \in DOMAIN metadata => metadata[p + 1] = (metadata[p] + 1) % NumWorkers
    /\ \A v \in Workers, w \in Workers :
          next_lport_index[v] - next_lport_index[w] \in {-1, 0, 1}

\* the selection wrapped around from the last worker to the first one
C20_Witness ==
    /\ \E p \in DOMAIN metadata :
          /\ (p + 1) \in DOMAIN metadata
          /\ metadata[p] = NumWorkers - 1
          /\ metadata[p + 1] = 0
    /\ \E w \in Workers : next_lport_index[w] > 1

\* the ports of a worker that a step deleted from the NB
GoneOn(w) == {p \in lsps \ lsps' : metadata[p] = w}

\* C21: whenever ports are unprovisioned, each deleted port is unbound on
\* the worker its metadata names and removed from that worker's lports; the
\* other ports of that worker stay, in order, and a worker that owns none of
\* the deleted ports keeps its lports and its bindings; next_lport_index and
\* the metadata of no worker change.
C21_UnprovisionDispatchesToOwner ==
    [][lsps' # lsps /\ lsps' \subseteq lsps =>
          /\ \A w \in Workers :
                /\ lports'[w] = SelectSeq(lports[w], LAMBDA p : p \notin GoneOn(w))
                /\ bound'[w] = bound[w] \ GoneOn(w)
                /\ GoneOn(w) = {} => lports'[w] = lports[w] /\ bound'[w] = bound[w]
          /\ UNCHANGED <<next_lport_index, metadata>>
      ]_vars

\* the first port of worker 1 was unprovisioned; the worker keeps its second
\* port and worker 0 keeps both of its ports
C21_Witness ==
    /\ 1 \notin lsps
    /\ Len(metadata) = 4
    /\ lports[1] = <<3>>
    /\ bound[1] = {3}
    /\ lports[0] = <<2, 4>>
    /\ bound[0] = {2, 4}
    /\ next_lport_index = [w \in Workers |-> 2]

(***************************************************************************)
(* The rate governor of a phase.  Time is counted in ticks; iteration i's  *)
(* launch slot opens i/qps seconds after the phase start, SlotTicks ticks  *)
(* per slot.                                                               *)
(***************************************************************************)
MaxNow == (NumIter - 1) * SlotTicks + Slack

\* a faulty variant of SlotOpen: the slot of iteration i opens one slot early
SlotOpenEarly(i) == now >= (i - 1) * SlotTicks

\* the slot of iteration i has opened
SlotOpen(i) == now >= i * SlotTicks

QpsTick ==
    /\ ~qpsDone
    /\ now < MaxNow
    /\ now' = now + 1
    /\ UNCHANGED <<nextIter, launchedAt, running, overlapped, qpsDone>>
    /\ FrameQps

\* launch body(nextIter); earlier bodies may still be running
qps_test_launch ==
    /\ nextIter < NumIter
    /\ SlotOpen(nextIter)
    /\ launchedAt' = Append(launchedAt, now)
    /\ running' = running \cup {nextIter}
    /\ overlapped' = (overlapped \/ running # {})
    /\ nextIter' = nextIter + 1
    /\ UNCHANGED <<now, qpsDone>>
    /\ FrameQps

\* a launched body returns
body_returns(i) ==
    /\ i \in running
    /\ running' = running \ {i}
    /\ UNCHANGED <<now, nextIter, launchedAt, overlapped, qpsDone>>
    /\ FrameQps

\* every iteration was launched and has returned: the phase completes
qps_test_done ==
    /\ ~qpsDone
    /\ nextIter = NumIter
    /\ running = {}
    /\ qpsDone' = TRUE
    /\ UNCHANGED <<now, nextIter, launchedAt, running, overlapped>>
    /\ FrameQps

NextQps ==
    \/ QpsTick
    \/ qps_test_launch
    \/ \E i \in 0..(NumIter - 1) : body_returns(i)
    \/ qps_test_done

SpecQps == Init /\ [][NextQps]_vars

\* C10: in a rate-governed phase body(i) is never launched earlier than i/qps
\* seconds (i slots) after the phase start, so a phase of N iterations does
\* not complete before (N-1)/qps seconds; launches are not serialized.
C10_LaunchNotBeforeSlot ==
    /\ \A k \in DOMAIN launchedAt : launchedAt[k] >= (k - 1) * SlotTicks
    /\ qpsDone => now >= (NumIter - 1) * SlotTicks

\* a completed phase in which a body was launched while an earlier one ran
C10_Witness ==
    /\ qpsDone
    /\ overlapped
    /\ Len(launchedAt) = NumIter

(***************************************************************************)
(* Bulk membership additions.  A member (a port UUID, an address string)   *)
(* is identified with a number; the lists callers pass hold distinct       *)
(* members (ports returned by provision_ports, their addresses).           *)
(***************************************************************************)
\* the list of n distinct members first, first + 1, ...
Members(first, n) == [k \in 1..n |-> first + k - 1]

\* range(0, len, step)
BatchStarts(len, step) == {i \in 0..(len - 1) : i % step = 0}

\* a faulty variant of Slice: l[i : j - 1]
SliceShort(l, i, j) == SubSeq(l, i + 1, Min(j - 1, Len(l)))

\* a faulty variant of Slice: l[i : j + 1]
SliceLong(l, i, j) == SubSeq(l, i + 1, Min(j + 1, Len(l)))

\* the Python slice l[i : j] of a list, 0 <= i <= j
Slice(l, i, j) == SubSeq(l, i + 1, Min(j, Len(l)))

\* the slices the loop "for i in range(0, len(l), step)" takes, in order
Batches(l, step) ==
    [k \in 1..Cardinality(BatchStarts(Len(l), step)) |->
        Slice(l, (k - 1) * step, (k - 1) * step + step)]

\* the members of the NB row after the transactions txns were executed on it
AfterTxns(before, txns) == before \cup UNION {Range(txns[k]) : k \in DOMAIN txns}

\* port_group_add_ports(pg, lports): one pg_add_ports transaction per slice of lports,
\* carrying the UUIDs of the slice
port_group_add_ports(before, ports) ==
    /\ bulkOp = "none"
    /\ bulkOp' = "port_group_add_ports"
    /\ bulkInput' = ports
    /\ bulkBefore' = before
    /\ bulkTxns' = Batches(ports, MAX_PORTS_IN_BATCH)
    /\ bulkMembers' = AfterTxns(before, bulkTxns')
    /\ FrameBulk

\* address_set_add_addrs(addr_set, addrs): one address_set_add_addresses
\* transaction per slice; str() of an address string is that string
address_set_add_addrs(before, addrs) ==
    /\ bulkOp = "none"
    /\ bulkOp' = "address_set_add_addrs"
    /\ bulkInput' = addrs
    /\ bulkBefore' = before
    /\ bulkTxns' = Batches(addrs, MAX_ADDRS_IN_BATCH)
    /\ bulkMembers' = AfterTxns(before, bulkTxns')
    /\ FrameBulk

\* what the group or set may hold before the call: nothing, a member of the
\* list, a member not in the list
BulkBefores == {{}, {1}, {0}}

NextBulk ==
    \/ \E n \in 0..MaxMembers, b \in BulkBefores :
           port_group_add_ports(b, Members(1, n))
    \/ \E n \in 0..MaxMembers, b \in BulkBefores :
           address_set_add_addrs(b, Members(1, n))

SpecBulk == Init /\ [][NextBulk]_vars

\* the transactions of the call, concatenated
RECURSIVE Concat(_)
Concat(ss) == IF ss = <<>> THEN <<>> ELSE Head(ss) \o Concat(Tail(ss))

\* C11: port_group_add_ports and address_set_add_addrs with N members leave
\* the group or set with the members it would have had they been added at
\* once: the batches are consecutive slices of the list, every member of the
\* list is in exactly one batch (no two batches share a member) and the union
\* of the batches is the set of the members of the list.
C11_BatchesPartitionTheList ==
    bulkOp # "none" =>
        /\ bulkMembers = bulkBefore \cup Range(bulkInput)
        /\ Concat(bulkTxns) = bulkInput
        /\ \A k \in DOMAIN bulkTxns, m \in DOMAIN bulkTxns :
              k # m => Range(bulkTxns[k]) \cap Range(bulkTxns[m]) = {}
        /\ UNION {Range(bulkTxns[k]) : k \in DOMAIN bulkTxns} = Range(bulkInput)

\* a call that needed three batches, the last one not full
C11_Witness ==
    /\ bulkOp = "port_group_add_ports"
    /\ Len(bulkTxns) = 3
    /\ Len(bulkTxns[3]) < MAX_PORTS_IN_BATCH
    /\ bulkBefore # {}

\* C12: no transaction of a bulk port-group or address-set addition carries
\* more than 500 members; N members take exactly ceil(N/500) transactions,
\* all but possibly the last carrying exactly 500, and an empty list takes none.
C12_AtMost500PerTransaction ==
    bulkOp # "none" =>
        LET max == IF bulkOp = "port_group_add_ports"
                   THEN MAX_PORTS_IN_BATCH ELSE MAX_ADDRS_IN_BATCH
            n   == Len(bulkInput)
            t   == Len(bulkTxns)
        IN  /\ \A k \in 1..t : Len(bulkTxns[k]) \in 1..max
            /\ max = 500
            /\ t * max >= n
            /\ (t - 1) * max < n
            /\ n = 0 => t = 0
            /\ \A k \in 1..(t - 1) : Len(bulkTxns[k]) = max

\* an address-set addition of more than two full batches
C12_Witness ==
    /\ bulkOp = "address_set_add_addrs"
    /\ Len(bulkInput) > 2 * MAX_ADDRS_IN_BATCH
    /\ Len(bulkTxns) = 3
    /\ Len(bulkTxns[1]) = MAX_ADDRS_IN_BATCH

(***************************************************************************)
(* Dual-stack subnets.  An address is a number of Bits4 bits (IPv4) or of  *)
(* Bits6 bits (IPv6); a network is its first and last address and its      *)
(* prefix length.                                                          *)
(***************************************************************************)
RECURSIVE Pow2(_)
Pow2(n) == IF n = 0 THEN 1 ELSE 2 * Pow2(n - 1)

\* netaddr.IPNetwork: the network of prefix length plen that starts at first
IPNetwork(first, plen, bits) ==
    [first |-> first, last |-> first + Pow2(bits - plen) - 1, prefixlen |-> plen]

\* netaddr.IPAddress(v) of an integer: the version is inferred from the
\* value, a value outside the address space raises AddrFormatError
IPAddress(v) ==
    IF v < 0 \/ v >= Pow2(Bits6)
    THEN [tag |-> "AddrFormatError"]
    ELSE [tag |-> "addr", version |-> IF v < Pow2(Bits4) THEN 4 ELSE 6, value |-> v]

\* DualStackIP(ip4, plen4, ip6, plen6); an exception raised while an
\* argument is evaluated propagates
DualStackIP(ip4, plen4, ip6, plen6) ==
    IF \E a \in ip4 \cup ip6 : a.tag = "AddrFormatError"
    THEN [tag |-> "AddrFormatError"]
    ELSE [tag |-> "ip", ip4 |-> ip4, plen4 |-> plen4, ip6 |-> ip6, plen6 |-> plen6]

OvnInvalidConfigException == [tag |-> "InvalidConfig"]

\* DualStackSubnet.forward(index); a network object is truthy
forward(n, index) ==
    IF n.n4 # None /\ n.n6 # None THEN
        DualStackIP(Some(IPAddress(The(n.n4).first + index)), Some(The(n.n4).prefixlen),
                    Some(IPAddress(The(n.n6).first + index)), Some(The(n.n6).prefixlen))
    ELSE IF n.n4 # None /\ ~(n.n6 # None) THEN
        DualStackIP(Some(IPAddress(The(n.n4).first + index)), Some(The(n.n4).prefixlen),
                    None, None)
    ELSE IF ~(n.n4 # None) /\ n.n6 # None THEN
        DualStackIP(None, None,
                    Some(IPAddress(The(n.n6).first + index)), Some(The(n.n6).prefixlen))
    ELSE OvnInvalidConfigException

\* a faulty variant of reverse: it counts down from the address after the last
reverse_from_end(n, index) ==
    IF n.n4 # None /\ n.n6 # None THEN
        DualStackIP(Some(IPAddress(The(n.n4).last + 1 - index)), Some(The(n.n4).prefixlen),
                    Some(IPAddress(The(n.n6).last + 1 - index)), Some(The(n.n6).prefixlen))
    ELSE IF n.n4 # None THEN
        DualStackIP(Some(IPAddress(The(n.n4).last + 1 - index)), Some(The(n.n4).prefixlen),
                    None, None)
    ELSE IF n.n6 # None THEN
        DualStackIP(None, None,
                    Some(IPAddress(The(n.n6).last + 1 - index)), Some(The(n.n6).prefixlen))
    ELSE OvnInvalidConfigException

\* DualStackSubnet.reverse(index)
reverse(n, index) ==
    IF n.n4 # None /\ n.n6 # None THEN
        DualStackIP(Some(IPAddress(The(n.n4).last - index)), Some(The(n.n4).prefixlen),
                    Some(IPAddress(The(n.n6).last - index)), Some(The(n.n6).prefixlen))
    ELSE IF n.n4 # None /\ ~(n.n6 # None) THEN
        DualStackIP(Some(IPAddress(The(n.n4).last - index)), Some(The(n.n4).prefixlen),
                    None, None)
    ELSE IF ~(n.n4 # None) /\ n.n6 # None THEN
        DualStackIP(None, None,
                    Some(IPAddress(The(n.n6).last - index)), Some(The(n.n6).prefixlen))
    ELSE OvnInvalidConfigException

\* the networks of one family that hold more than MaxIndex addresses; the
\* IPv6 networks lie above the IPv4 address space
Nets(bits) ==
    {net \in {IPNetwork(k * Pow2(bits - p), p, bits) :
                k \in 0..(Pow2(bits) - 1),
                p \in {q \in 0..bits : Pow2(bits - q) > MaxIndex}} :
        net.last < Pow2(bits)}
Nets4 == Nets(Bits4)
Nets6 == {net \in Nets(Bits6) : net.first >= Pow2(Bits4)}

\* the subnets a configuration can hold: either family may be absent
Subnets ==
    {DualStackSubnet(n4, n6) :
        n4 \in {None} \cup {Some(x) : x \in Nets4},
        n6 \in {None} \cup {Some(x) : x \in Nets6}}

ForwardCall(n, index) ==
    /\ dsOp = "none"
    /\ dsOp' = "forward"
    /\ dsSubnet' = n
    /\ dsIndex' = index
    /\ dsResult' = forward(n, index)
    /\ FrameDs

ReverseCall(n, index) ==
    /\ dsOp = "none"
    /\ dsOp' = "reverse"
    /\ dsSubnet' = n
    /\ dsIndex' = index
    /\ dsResult' = reverse(n, index)
    /\ FrameDs

NextDs ==
    \/ \E n \in Subnets, i \in 0..MaxIndex : ForwardCall(n, i)
    \/ \E n \in Subnets, i \in 0..MaxIndex : ReverseCall(n, i)

SpecDs == Init /\ [][NextDs]_vars

\* the address a result field holds for a family of the subnet
FamilyOk(net, ip, plen, value) ==
    IF net = None
    THEN ip = None /\ plen = None
    ELSE /\ ip # None
         /\ The(ip).value = value
         /\ plen = Some(The(net).prefixlen)

\* C13: reverse(i) has ip4 = n4.last - i and forward(i) has ip4 = n4.first + i
\* when the subnet has a v4 network (likewise ip6 for v6), with the prefix
\* length of that family; a family absent in the subnet has its address and
\* prefix length None in the result; a subnet with neither family yields the
\* invalid-configuration exception and no IP.
C13_ForwardReverseMirrorFamilies ==
    dsOp # "none" =>
        IF dsSubnet.n4 = None /\ dsSubnet.n6 = None
        THEN dsResult = OvnInvalidConfigException
        ELSE /\ dsResult.tag = "ip"
             /\ FamilyOk(dsSubnet.n4, dsResult.ip4, dsResult.plen4,
                    IF dsOp = "forward" THEN The(dsSubnet.n4).first + dsIndex
                                        ELSE The(dsSubnet.n4).last - dsIndex)
             /\ FamilyOk(dsSubnet.n6, dsResult.ip6, dsResult.plen6,
                    IF dsOp = "forward" THEN The(dsSubnet.n6).first + dsIndex
                                        ELSE The(dsSubnet.n6).last - dsIndex)

\* reverse with a non-zero index on a subnet that has only a v4 network
C13_Witness ==
    /\ dsOp = "reverse"
    /\ dsIndex > 0
    /\ dsSubnet.n4 # None
    /\ dsSubnet.n6 = None
    /\ dsResult.tag = "ip"
    /\ dsResult.ip6 = None

(***************************************************************************)
(* The driver: ovn_tester.py read as one run from the command line to the  *)
(* exit.  The management network node_net is an IPv4 network of the        *)
(* Bits4-bit address space.                                                *)
(***************************************************************************)
MaxRelays == 1
SB_PORT == 6642

\* netaddr.IPNetwork("ip/plen"): ip is kept as written, first and last are
\* the bounds of the network that holds it
NodeNet(ip, plen) ==
    LET size == Pow2(Bits4 - plen)
    IN  [ip |-> ip, first |-> ip - (ip % size), last |-> ip - (ip % size) + size - 1,
         prefixlen |-> plen]

\* IPNetwork.iter_hosts() of an IPv4 network, as the list the generator
\* yields: every address but the network and the broadcast address; the
\* one or two addresses of a network that has no more
iter_hosts(net) ==
    IF net.last - net.first <= 1
    THEN [k \in 1..(net.last - net.first + 1) |-> net.first + k - 1]
    ELSE [k \in 1..(net.last - net.first - 1) |-> net.first + k]

\* "ssl:" + str(ip) + ":6642"
Endpoint(proto, ip) == [proto |-> proto, ip |-> ip, port |-> SB_PORT]

StopIteration == [tag |-> "StopIteration"]

\* a faulty variant of calculate_default_node_remotes: the addresses of the
\* DB servers are skipped without relays too
calculate_default_node_remotes_skip(net, clustered, n_relays, enable_ssl) ==
    LET ip_gen == iter_hosts(net)
        skip   == IF clustered THEN 3 ELSE 1
        n      == IF n_relays > 0 THEN n_relays ELSE IF clustered THEN 3 ELSE 1
    IN  IF skip + n > Len(ip_gen)
        THEN StopIteration
        ELSE [tag |-> "remotes",
              list |-> [k \in 1..n |->
                           Endpoint(IF enable_ssl THEN "ssl" ELSE "tcp", ip_gen[skip + k])]]

\* calculate_default_node_remotes(net, clustered, n_relays, enable_ssl): the
\* list that is comma-joined; next(ip_gen) on an exhausted generator raises
\* StopIteration
calculate_default_node_remotes(net, clustered, n_relays, enable_ssl) ==
    LET ip_gen == iter_hosts(net)
        skip   == IF n_relays > 0 THEN (IF clustered THEN 3 ELSE 1) ELSE 0
        n      == IF n_relays > 0 THEN n_relays ELSE IF clustered THEN 3 ELSE 1
    IN  IF skip + n > Len(ip_gen)
        THEN StopIteration
        ELSE [tag |-> "remotes",
              list |-> [k \in 1..n |->
                           Endpoint(IF enable_ssl THEN "ssl" ELSE "tcp", ip_gen[skip + k])]]

\* the management networks a deployment can use: they hold the addresses
\* of the DB servers and of the relays
NodeNets ==
    {net \in {NodeNet(ip, plen) : ip \in 0..(Pow2(Bits4) - 1), plen \in 0..Bits4} :
        Len(iter_hosts(net)) >= 3 + MaxRelays}

\* a node_remote given in the configuration file
GivenRemote == <<Endpoint("tcp", 0)>>

\* the configuration files: the keys read_config reads that the run of the
\* driver depends on; node_remote is None when the key is absent
Configs ==
    [run_ipv4 : BOOLEAN, run_ipv6 : BOOLEAN, clustered_db : BOOLEAN,
     enable_ssl : BOOLEAN, n_relays : 0..MaxRelays, node_net : NodeNets,
     node_remote : {None, Some(GivenRemote)}]

\* "if len(sys.argv) != 3: usage; sys.exit(1)", then yaml.safe_load and
\* read_config(config): cluster_args.get('node_remote', default) evaluates
\* the default whether or not the key is present
Main_read_config(argc, cfg) ==
    /\ mainPc = "start"
    /\ IF argc # 3
       THEN /\ mainOutcome' = "usage"
            /\ mainPc' = "exit"
            /\ UNCHANGED <<config, node_remote>>
       ELSE LET d == calculate_default_node_remotes(cfg.node_net, cfg.clustered_db,
                                                    cfg.n_relays, cfg.enable_ssl)
            IN  IF d = StopIteration
                THEN /\ mainOutcome' = "StopIteration"
                     /\ mainPc' = "exit"
                     /\ UNCHANGED <<config, node_remote>>
                ELSE /\ config' = cfg
                     /\ node_remote' = IF cfg.node_remote = None THEN d.list
                                       ELSE The(cfg.node_remote)
                     /\ mainPc' = "configured"
                     /\ UNCHANGED mainOutcome
    /\ UNCHANGED <<nodesCreated, dbConnected, nodesStarted>>
    /\ FrameMain

\* a faulty variant of Main_check_families: the families are not checked
Main_no_family_check ==
    /\ mainPc = "configured"
    /\ mainPc' = "checked"
    /\ UNCHANGED <<config, node_remote, nodesCreated, dbConnected, nodesStarted,
                   mainOutcome>>
    /\ FrameMain

\* setup_logging, then "if not global_cfg.run_ipv4 and not
\* global_cfg.run_ipv6: raise OvnInvalidConfigException()"
Main_check_families ==
    /\ mainPc = "configured"
    /\ IF ~config.run_ipv4 /\ ~config.run_ipv6
       THEN mainOutcome' = "InvalidConfig" /\ mainPc' = "exit"
       ELSE mainPc' = "checked" /\ UNCHANGED mainOutcome
    /\ UNCHANGED <<config, node_remote, nodesCreated, dbConnected, nodesStarted>>
    /\ FrameMain

\* read_physical_deployment, create_nodes, configure_tests
Main_create_nodes ==
    /\ mainPc = "checked"
    /\ nodesCreated' = TRUE
    /\ mainPc' = "nodes"
    /\ UNCHANGED <<config, node_remote, dbConnected, nodesStarted, mainOutcome>>
    /\ FrameMain

\* prepare_test: Cluster(...) opens the NB and SB connections, ovn.start()
\* starts the central node and the workers
Main_prepare_test ==
    /\ mainPc = "nodes"
    /\ dbConnected' = TRUE
    /\ nodesStarted' = TRUE
    /\ mainPc' = "prepared"
    /\ UNCHANGED <<config, node_remote, nodesCreated, mainOutcome>>
    /\ FrameMain

\* run_base_cluster_bringup, the tests, sys.exit(0)
Main_run_tests ==
    /\ mainPc = "prepared"
    /\ mainOutcome' = "exit0"
    /\ mainPc' = "exit"
    /\ UNCHANGED <<config, node_remote, nodesCreated, dbConnected, nodesStarted>>
    /\ FrameMain

\* the exit status of the process: sys.exit(n), or 1 for an exception that
\* nothing catches
ExitStatus == IF mainOutcome = "exit0" THEN 0 ELSE 1

NextMain ==
    \/ \E argc \in {2, 3}, cfg \in Configs : Main_read_config(argc, cfg)
    \/ Main_check_families
    \/ Main_create_nodes
    \/ Main_prepare_test
    \/ Main_run_tests

SpecMain == Init /\ [][NextMain]_vars

\* the driver is one sequential process: a step that can be taken is taken
SpecMainFair == SpecMain /\ WF_vars(NextMain)

\* read_config has returned the configuration of the run
Configured == mainPc # "start" /\ mainOutcome \notin {"usage", "StopIteration"}

\* C22 as stated: without relays and without a node_remote key, a clustered
\* DB gets three endpoints {ssl|tcp}:ip:6642 on the consecutive addresses
\* node_net.ip + 5, + 6, + 7, a standalone DB gets exactly one endpoint.
C22_DefaultRemotesStartAtIpPlus5 ==
    (Configured /\ config.n_relays = 0 /\ config.node_remote = None) =>
        LET proto == IF config.enable_ssl THEN "ssl" ELSE "tcp"
        IN  IF config.clustered_db
            THEN /\ Len(node_remote) = 3
                 /\ \A k \in 1..3 :
                       node_remote[k] = Endpoint(proto, config.node_net.ip + 5 + (k - 1))
            ELSE Len(node_remote) = 1

\* C22: without relays and without a node_remote key, a clustered DB gets
\* three endpoints {ssl|tcp}:ip:6642 on the first three host addresses of
\* node_net (the network address + 1, + 2, + 3: nothing is skipped), a
\* standalone DB gets exactly one endpoint, on the first host address.
C22_DefaultRemotesAreFirstHosts ==
    (Configured /\ config.n_relays = 0 /\ config.node_remote = None) =>
        LET proto == IF config.enable_ssl THEN "ssl" ELSE "tcp"
            n     == IF config.clustered_db THEN 3 ELSE 1
        IN  /\ Len(node_remote) = n
            /\ \A k \in 1..n :
                  node_remote[k] = Endpoint(proto, config.node_net.first + k)

\* the default remotes of a clustered DB without SSL, on a node_net written
\* with an address that is not its network address
C22_Witness ==
    /\ Configured
    /\ config.n_relays = 0
    /\ config.node_remote = None
    /\ config.clustered_db
    /\ ~config.enable_ssl
    /\ config.node_net.ip # config.node_net.first
    /\ Len(node_remote) = 3
    /\ node_remote[1].ip + 2 = node_remote[3].ip

\* a configuration with neither address family
NoFamily == Configured /\ ~config.run_ipv4 /\ ~config.run_ipv6

MaxNs == 3
MaxRatio == 2

\* a faulty variant of NsSlice: the slice of namespace i starts at position i
NsSliceFromIndex(i, ratio) == [k \in 1..ratio |-> i + (k - 1)]

\* ports[i * pods_ns_ratio : (i + 1) * pods_ns_ratio]
NsSlice(i, ratio) == [k \in 1..ratio |-> i * ratio + (k - 1)]

\* a call made on namespace ns; ping is the pair of ports a check pinged
NsCall(o, ns, peer, ping) == [op |-> o, ns |-> ns, peer |-> peer, ping |-> ping]

\* NetpolCrossNs.__init__: the test configuration is read
Np_configure(n, ratio) ==
    /\ npPhase = "config"
    /\ n_ns' = n
    /\ pods_ns_ratio' = ratio
    /\ npPhase' = "startup"
    /\ UNCHANGED <<all_ns, iterPc, npLog>>
    /\ FrameNetpol

\* one round of the start-up loop of run(): create_namespace, add_ports of
\* the slice, default_deny, all_ns.append
Np_startup_ns ==
    /\ npPhase = "startup"
    /\ Len(all_ns) < n_ns
    /\ LET i == Len(all_ns)
       IN  /\ all_ns' = Append(all_ns, NsSlice(i, pods_ns_ratio))
           /\ npLog' = Append(npLog, NsCall("default_deny", i, i, None))
    /\ UNCHANGED <<npPhase, n_ns, pods_ns_ratio, iterPc>>
    /\ FrameNetpol

\* "with Context('netpol_cross_ns', n_ns, test=self)": the phase of n_ns
\* iterations begins when the start-up loop has ended
Np_begin_test ==
    /\ npPhase = "startup"
    /\ Len(all_ns) = n_ns
    /\ npPhase' = "test"
    /\ iterPc' = [k \in 1..n_ns |-> "waiting"]
    /\ UNCHANGED <<n_ns, pods_ns_ratio, all_ns, npLog>>
    /\ FrameNetpol

\* ctx.qps_test launches the task of iteration i; the iterations are
\* launched in the order of their numbers
Np_launch(i) ==
    /\ npPhase = "test"
    /\ i < n_ns
    /\ iterPc[i + 1] = "waiting"
    /\ \A j \in 0..(i - 1) : iterPc[j + 1] # "waiting"
    /\ iterPc' = [iterPc EXCEPT ![i + 1] = "launched"]
    /\ UNCHANGED <<npPhase, n_ns, pods_ns_ratio, all_ns, npLog>>
    /\ FrameNetpol

\* a faulty variant of ExtNs: the namespace itself is taken as the peer
ExtNsSelf(iter_num, n) == iter_num

\* "ext_ns = all_ns[(iter_num + 1) % self.config.n_ns]"
ExtNs(iter_num, n) == (iter_num + 1) % n

\* tester of iteration i, up to its first await:
\* ns.allow_cross_namespace(ext_ns)
Np_allow(i) ==
    /\ npPhase = "test"
    /\ i < n_ns
    /\ iterPc[i + 1] = "launched"
    /\ iterPc' = [iterPc EXCEPT ![i + 1] = "allowed"]
    /\ npLog' = Append(npLog, NsCall("allow_cross_namespace", i, ExtNs(i, n_ns), None))
    /\ UNCHANGED <<npPhase, n_ns, pods_ns_ratio, all_ns>>
    /\ FrameNetpol

\* Namespace.check_enforcing_cross_ns(ns): the first port of the namespace
\* pings the first port of ns when both namespaces have ports
check_enforcing_cross_ns(self, ns) ==
    IF Len(all_ns[self + 1]) > 0 /\ Len(all_ns[ns + 1]) > 0
    THEN Some(<<all_ns[self + 1][1], all_ns[ns + 1][1]>>)
    ELSE None

\* tester of iteration i after allow_cross_namespace:
\* ns.check_enforcing_cross_ns(ext_ns)
Np_check(i) ==
    /\ npPhase = "test"
    /\ i < n_ns
    /\ iterPc[i + 1] = "allowed"
    /\ iterPc' = [iterPc EXCEPT ![i + 1] = "checked"]
    /\ npLog' = Append(npLog, NsCall("check_enforcing_cross_ns", i, ExtNs(i, n_ns),
                                     check_enforcing_cross_ns(i, ExtNs(i, n_ns))))
    /\ UNCHANGED <<npPhase, n_ns, pods_ns_ratio, all_ns>>
    /\ FrameNetpol

\* the phase ends when every iteration has ended; with global_cfg.cleanup
\* every namespace is then unprovisioned
Np_end_test(cleanup) ==
    /\ npPhase = "test"
    /\ \A k \in 1..n_ns : iterPc[k] = "checked"
    /\ npPhase' = "done"
    /\ npLog' = IF cleanup
                THEN npLog \o [k \in 1..n_ns |-> NsCall("unprovision", k - 1, k - 1, None)]
                ELSE npLog
    /\ UNCHANGED <<n_ns, pods_ns_ratio, all_ns, iterPc>>
    /\ FrameNetpol

NextNetpol ==
    \/ \E n \in 0..MaxNs, ratio \in 0..MaxRatio : Np_configure(n, ratio)
    \/ Np_startup_ns
    \/ Np_begin_test
    \/ \E i \in 0..(MaxNs - 1) : Np_launch(i)
    \/ \E i \in 0..(MaxNs - 1) : Np_allow(i)
    \/ \E i \in 0..(MaxNs - 1) : Np_check(i)
    \/ \E cleanup \in BOOLEAN : Np_end_test(cleanup)

SpecNetpol == Init /\ [][NextNetpol]_vars

\* the positions of the log that hold a call o with namespace ns in field f
CallsAt(o, f, ns) == {k \in DOMAIN npLog : npLog[k].op = o /\ npLog[k][f] = ns}

\* C24: iteration i applies allow_cross_namespace from ns[i] towards
\* ns[(i + 1) mod n_ns] and only afterwards checks the ping from
\* ns[i].ports[0] to ns[(i + 1) mod n_ns].ports[0]; no namespace is the
\* source of more than one allow or the peer of more than one, and when the
\* phase has ended every namespace has been the source exactly once and the
\* peer exactly once; default_deny has been called on every namespace before
\* the first iteration does anything.
C24_AllowThenCheckEachNamespaceOnce ==
    /\ \A k \in DOMAIN npLog :
          LET c == npLog[k]
          IN  /\ c.op = "allow_cross_namespace" =>
                    /\ c.peer = (c.ns + 1) % n_ns
                    /\ \A i \in 0..(n_ns - 1) :
                          \E d \in 1..(k - 1) :
                              npLog[d].op = "default_deny" /\ npLog[d].ns = i
              /\ c.op = "check_enforcing_cross_ns" =>
                    /\ c.peer = (c.ns + 1) % n_ns
                    /\ \E a \in 1..(k - 1) :
                          /\ npLog[a].op = "allow_cross_namespace"
                          /\ npLog[a].ns = c.ns
                          /\ npLog[a].peer = c.peer
                    /\ pods_ns_ratio > 0 =>
                          c.ping = Some(<<all_ns[c.ns + 1][1], all_ns[c.peer + 1][1]>>)
    /\ \A i \in 0..(n_ns - 1) :
          /\ Cardinality(CallsAt("allow_cross_namespace", "ns", i)) <= 1
          /\ Cardinality(CallsAt("allow_cross_namespace", "peer", i)) <= 1
          /\ Cardinality(CallsAt("check_enforcing_cross_ns", "ns", i)) <= 1
          /\ npPhase = "done" =>
                /\ Cardinality(CallsAt("allow_cross_namespace", "ns", i)) = 1
                /\ Cardinality(CallsAt("allow_cross_namespace", "peer", i)) = 1
                /\ Cardinality(CallsAt("check_enforcing_cross_ns", "ns", i)) = 1
    /\ (\E k \in DOMAIN iterPc : iterPc[k] # "waiting") =>
          \A i \in 0..(n_ns - 1) : CallsAt("default_deny", "ns", i) # {}

\* the phase of three namespaces with ports has ended; the last iteration
\* pinged the first namespace, and the iterations overlapped: the second one
\* applied its allow before the first one checked
C24_Witness ==
    /\ npPhase = "done"
    /\ n_ns = 3
    /\ pods_ns_ratio = 1
    /\ \E k \in DOMAIN npLog :
          /\ npLog[k].op = "check_enforcing_cross_ns"
          /\ npLog[k].ns = 2
          /\ npLog[k].ping = Some(<<2, 0>>)
    /\ \E a \in DOMAIN npLog, c \in DOMAIN npLog :
          /\ a < c
          /\ npLog[a].op = "allow_cross_namespace" /\ npLog[a].ns = 1
          /\ npLog[c].op = "check_enforcing_cross_ns" /\ npLog[c].ns = 0

\* the ports that ovn.provision_ports(pods_ns_ratio * n_ns) returned
StartupPorts == 0..(pods_ns_ratio * n_ns - 1)

\* the ports of the namespace created in round i of the start-up loop
PortsOfNs(i) == Range(all_ns[i + 1])

\* C36: the namespace created in round i of the start-up holds exactly the
\* pods_ns_ratio ports at the positions i * pods_ns_ratio up to
\* (i + 1) * pods_ns_ratio - 1 of the provisioned list, in that order; no
\* port is in two namespaces, and once the start-up has ended every one of
\* the n_ns * pods_ns_ratio ports is in exactly one namespace.
C36_PortsPartitionedAmongNamespaces ==
    /\ \A i \in 0..(Len(all_ns) - 1) :
          /\ Len(all_ns[i + 1]) = pods_ns_ratio
          /\ \A k \in 1..pods_ns_ratio : all_ns[i + 1][k] = i * pods_ns_ratio + (k - 1)
          /\ PortsOfNs(i) \subseteq StartupPorts
          /\ Cardinality(PortsOfNs(i)) = pods_ns_ratio
    /\ \A i \in 0..(Len(all_ns) - 1), j \in 0..(Len(all_ns) - 1) :
          i # j => PortsOfNs(i) \cap PortsOfNs(j) = {}
    /\ npPhase \in {"test", "done"} =>
          /\ Len(all_ns) = n_ns
          /\ \A p \in StartupPorts :
                Cardinality({i \in 0..(n_ns - 1) : p \in PortsOfNs(i)}) = 1

\* six ports were shared out among three namespaces, two each
C36_Witness ==
    /\ npPhase = "test"
    /\ n_ns = 3
    /\ pods_ns_ratio = 2
    /\ all_ns = <<(<<0, 1>>), (<<2, 3>>), (<<4, 5>>)>>

(***************************************************************************)
(* Bring-up of the workers: the loop of Cluster.start over the workers,    *)
(* then WorkerNode.provision of each worker in turn.  The chassis of a     *)
(* worker registers in the SB at some time after the worker was connected. *)
(***************************************************************************)
MaxNodeTimeout == 1
POLLS_PER_SECOND == 10

\* something done for worker w
Did(w, cmd) == [w |-> w, cmd |-> cmd]

\* WorkerNode.configure: configure_localnet, then configure_external_host
ConfigureCmds == <<"bridge-mappings", "ext-ns">>

\* a faulty variant of ProvisionNbCmds: the routes and the SNAT are installed
\* before the external switch is created
ProvisionNbCmdsRoutesFirst ==
    <<"ls_add lswitch", "lr_port_add rtr-to-node", "ls_port_add node-to-rtr",
      "lr_port_set_gw_chassis",
      "lr_add gwrouter", "set options:chassis", "lr_port_add gw-to-join",
      "ls_port_add join-to-gw",
      "route_add cluster_net", "route_add default", "set options:lb_force_snat_ip",
      "route_add src-ip", "nat_add snat",
      "ls_add ext", "lr_port_add gw-to-ext", "ls_port_add ext-to-gw",
      "ls_port_add provnet", "set type localnet", "set options:network_name">>

\* the NB commands of WorkerNode.provision after wait(), in order
ProvisionNbCmds ==
    <<"ls_add lswitch", "lr_port_add rtr-to-node", "ls_port_add node-to-rtr",
      "lr_port_set_gw_chassis",
      "lr_add gwrouter", "set options:chassis", "lr_port_add gw-to-join",
      "ls_port_add join-to-gw",
      "ls_add ext", "lr_port_add gw-to-ext", "ls_port_add ext-to-gw",
      "ls_port_add provnet", "set type localnet", "set options:network_name",
      "route_add cluster_net", "route_add default", "set options:lb_force_snat_ip",
      "route_add src-ip", "nat_add snat">>

\* a faulty variant of WaitAfterLoop: wait() returns when the polls are used up
WaitAfterLoopReturns == "return"

\* wait() after its loop: "raise ovn_exceptions.OvnChassisTimeoutException()"
WaitAfterLoop == "raise"

\* read_config: cluster_cfg.node_timeout_s
Wp_configure(t) ==
    /\ wpPc = "config"
    /\ node_timeout_s' = t
    /\ wpPc' = "start"
    /\ UNCHANGED <<wpWorker, chassis, polls, wpLog, wpRaised>>
    /\ FrameProvision

\* one round of the loop of Cluster.start: w.start(cluster_cfg), then
\* w.configure(physical_net)
Wp_start_worker ==
    /\ wpPc = "start"
    /\ wpWorker < NumWorkers
    /\ wpLog' = wpLog \o <<Did(wpWorker, "add-chassis")>>
                      \o [k \in DOMAIN ConfigureCmds |-> Did(wpWorker, ConfigureCmds[k])]
    /\ wpWorker' = wpWorker + 1
    /\ UNCHANGED <<wpPc, node_timeout_s, chassis, polls, wpRaised>>
    /\ FrameProvision

\* the rest of Cluster.start and the cluster-wide part of
\* run_base_cluster_bringup; the loop over the workers begins
Wp_begin_bringup ==
    /\ wpPc = "start"
    /\ wpWorker = NumWorkers
    /\ wpWorker' = 0
    /\ wpPc' = IF NumWorkers > 0 THEN "connect" ELSE "done"
    /\ UNCHANGED <<node_timeout_s, chassis, polls, wpLog, wpRaised>>
    /\ FrameProvision

\* WorkerNode.provision, up to wait(): self.connect(cluster_cfg)
Wp_connect ==
    /\ wpPc = "connect"
    /\ chassis' = [chassis EXCEPT ![wpWorker] = "connected"]
    /\ wpLog' = Append(wpLog, Did(wpWorker, "set-chassis-ovn-remote"))
    /\ wpPc' = "wait"
    /\ UNCHANGED <<wpWorker, node_timeout_s, polls, wpRaised>>
    /\ FrameProvision

\* the ovn-controller of a connected worker registers its chassis in the SB
Env_chassis_registers(w) ==
    /\ chassis[w] = "connected"
    /\ chassis' = [chassis EXCEPT ![w] = "bound"]
    /\ UNCHANGED <<wpPc, wpWorker, node_timeout_s, polls, wpLog, wpRaised>>
    /\ FrameProvision

\* OvnSbctl.chassis_bound(chassis): one row of Chassis has the name
chassis_bound(w) == chassis[w] = "bound"

\* one round of the loop of wait(): the poll, and the sleep of 100 ms when
\* the chassis is not bound
Wp_poll ==
    /\ wpPc = "wait"
    /\ polls[wpWorker] < node_timeout_s * POLLS_PER_SECOND
    /\ IF chassis_bound(wpWorker)
       THEN /\ wpLog' = Append(wpLog, Did(wpWorker, "chassis bound"))
            /\ wpPc' = "topology"
            /\ UNCHANGED polls
       ELSE /\ polls' = [polls EXCEPT ![wpWorker] = @ + 1]
            /\ UNCHANGED <<wpPc, wpLog>>
    /\ UNCHANGED <<wpWorker, node_timeout_s, chassis, wpRaised>>
    /\ FrameProvision

\* wait() when range(timeout_s * 10) is used up
Wp_wait_timeout ==
    /\ wpPc = "wait"
    /\ polls[wpWorker] = node_timeout_s * POLLS_PER_SECOND
    /\ IF WaitAfterLoop = "raise"
       THEN wpPc' = "failed" /\ wpRaised' = "ChassisTimeout"
       ELSE wpPc' = "topology" /\ UNCHANGED wpRaised
    /\ UNCHANGED <<wpWorker, node_timeout_s, chassis, polls, wpLog>>
    /\ FrameProvision

\* WorkerNode.provision after wait(): the NB topology of the worker; the
\* bring-up goes on to the next worker
Wp_topology ==
    /\ wpPc = "topology"
    /\ wpLog' = wpLog \o [k \in DOMAIN ProvisionNbCmds |-> Did(wpWorker, ProvisionNbCmds[k])]
    /\ wpWorker' = wpWorker + 1
    /\ wpPc' = IF wpWorker + 1 < NumWorkers THEN "connect" ELSE "done"
    /\ UNCHANGED <<node_timeout_s, chassis, polls, wpRaised>>
    /\ FrameProvision

NextProvision ==
    \/ \E t \in 0..MaxNodeTimeout : Wp_configure(t)
    \/ Wp_start_worker
    \/ Wp_begin_bringup
    \/ Wp_connect
    \/ \E w \in Workers : Env_chassis_registers(w)
    \/ Wp_poll
    \/ Wp_wait_timeout
    \/ Wp_topology

SpecProvision == Init /\ [][NextProvision]_vars

\* the commands that create or change an entity of the NB
NbCmds == Range(ProvisionNbCmds)

\* the positions of the log that hold command cmd of worker w
DoneAt(w, cmd) == {k \in DOMAIN wpLog : wpLog[k] = Did(w, cmd)}

\* C25: no NB entity of a worker is created before the worker was connected
\* to the SB remote and a poll found its chassis bound; wait() polls at most
\* node_timeout_s * 10 times, and when none of these polls finds the chassis
\* bound, provision fails with ChassisTimeout and the NB holds no entity of
\* that worker.
C25_NoTopologyBeforeChassisBound ==
    /\ \A w \in Workers :
          LET nb == {k \in DOMAIN wpLog : wpLog[k].w = w /\ wpLog[k].cmd \in NbCmds}
          IN  nb # {} =>
                  \E c \in DoneAt(w, "set-chassis-ovn-remote"), b \in DoneAt(w, "chassis bound") :
                      c < b /\ \A k \in nb : b < k
    /\ \A w \in Workers : polls[w] <= node_timeout_s * POLLS_PER_SECOND
    /\ wpRaised = "ChassisTimeout" =>
          /\ wpPc = "failed"
          /\ polls[wpWorker] = node_timeout_s * POLLS_PER_SECOND
          /\ \A k \in DOMAIN wpLog : wpLog[k].w = wpWorker => wpLog[k].cmd \notin NbCmds
    /\ (wpPc = "wait" /\ polls[wpWorker] = node_timeout_s * POLLS_PER_SECOND) =>
          ENABLED Wp_wait_timeout

\* the second worker timed out after ten polls although its chassis
\* registered in the end; the first worker has its topology
C25_Witness ==
    /\ wpRaised = "ChassisTimeout"
    /\ wpWorker = 1
    /\ polls[1] = 10
    /\ chassis[1] = "bound"
    /\ DoneAt(0, "nat_add snat") # {}
    /\ DoneAt(1, "ls_add lswitch") = {}

\* the number a command has in the provision sequence of spec section 4.4;
\* 0 for the start of the worker, which is no part of it
StepOf(cmd) ==
    IF cmd = "set-chassis-ovn-remote" THEN 1
    ELSE IF cmd = "chassis bound" THEN 2
    ELSE IF cmd \in {"ls_add lswitch", "lr_port_add rtr-to-node",
                     "ls_port_add node-to-rtr", "lr_port_set_gw_chassis"} THEN 3
    ELSE IF cmd \in {"lr_add gwrouter", "set options:chassis",
                     "lr_port_add gw-to-join", "ls_port_add join-to-gw"} THEN 4
    ELSE IF cmd \in {"ls_add ext", "lr_port_add gw-to-ext", "ls_port_add ext-to-gw",
                     "ls_port_add provnet", "set type localnet",
                     "set options:network_name"} THEN 5
    ELSE IF cmd \in {"route_add cluster_net", "route_add default",
                     "set options:lb_force_snat_ip", "route_add src-ip",
                     "nat_add snat"} THEN 6
    ELSE IF cmd \in {"bridge-mappings", "ext-ns"} THEN 7
    ELSE 0

\* the step numbers of what was done for worker w, in order
StepsOf(w) ==
    LET mine == SelectSeq(wpLog, LAMBDA e : e.w = w /\ StepOf(e.cmd) > 0)
    IN  [k \in DOMAIN mine |-> StepOf(mine[k].cmd)]

\* the steps of a worker whose provision has completed, in the order of the
\* code
StepsInCodeOrder == <<7, 7, 1, 2, 3, 3, 3, 3, 4, 4, 4, 4, 5, 5, 5, 5, 5, 5, 6, 6, 6, 6, 6>>

\* C26 as stated: the steps of a worker are performed in the order 1..7; the
\* bridge mapping and the external netns (step 7) come after the routes and
\* the SNAT (step 6) of that worker.
C26_StepsInOrder1To7 ==
    \A w \in Workers :
        \A j \in DOMAIN StepsOf(w), k \in DOMAIN StepsOf(w) :
            j < k => StepsOf(w)[j] <= StepsOf(w)[k]

\* C26: the bridge mapping and the external netns of a worker are configured
\* first, when Cluster.start starts the worker; provision then performs the
\* steps 1 to 6 in this order: connect to the SB, wait for the chassis, node
\* switch with its router peer ports and gateway-chassis pin, gateway router
\* attached to the join switch, external switch with its localnet port, then
\* the routes, lb_force_snat_ip and the SNAT.
C26_ConfigureThenSteps1To6 ==
    /\ \A w \in Workers :
          /\ Len(StepsOf(w)) <= Len(StepsInCodeOrder)
          /\ StepsOf(w) = SubSeq(StepsInCodeOrder, 1, Len(StepsOf(w)))
    /\ wpPc = "done" => \A w \in Workers : StepsOf(w) = StepsInCodeOrder
    /\ \A w \in Workers :
          \A k \in DoneAt(w, "set-chassis-ovn-remote") :
              \A v \in Workers : \E c \in DoneAt(v, "ext-ns") : c < k

\* both workers are provisioned; the external netns of the second worker
\* was created before the first worker was connected to the SB
C26_Witness ==
    /\ wpPc = "done"
    /\ \E c \in DoneAt(1, "ext-ns"), k \in DoneAt(0, "set-chassis-ovn-remote") : c < k
    /\ \E r \in DoneAt(1, "ls_add ext"), n \in DoneAt(1, "nat_add snat") : r < n

(***************************************************************************)
(* The ports of the workers.  provision_port computes the name and the     *)
(* addresses of the port from next_lport_index, awaits ls_port_add, and    *)
(* only then appends the port and increments the index; a call is in       *)
(* flight while it awaits.  The callers are the bring-up, the start-up of  *)
(* the netpol_cross_ns test and the iterations of its rate-governed phase. *)
(***************************************************************************)
MaxPods == 1

\* the prefix lengths of internal_net and external_net: the nets of all the
\* workers lie in the IPv4 address space and each holds a first host, a
\* router port and a broadcast address
NetPlens ==
    {p \in 0..Bits4 : /\ Pow2(Bits4 - p) * NumWorkers <= Pow2(Bits4)
                      /\ Pow2(Bits4 - p) >= 4}

\* DualStackSubnet.next(net, i) of create_nodes, IPv4: the i-th network after
\* the network of prefix length plen that starts at 0
NextNet(plen, i) == IPNetwork(i * Pow2(Bits4 - plen), plen, Bits4)

int_net(w) == NextNet(ppCfg.plen, w)
ext_net(w) == NextNet(ppCfg.ext_plen, w)

\* a faulty variant of LPort: the first port gets the first address of the net
LPortFromFirst(id, index) ==
    [name |-> <<"lp", id, index>>,
     ip |-> IPAddress(int_net(id).first + index),
     plen |-> int_net(id).prefixlen,
     gw |-> IPAddress(int_net(id).last - 1),
     ext_gw |-> IPAddress(ext_net(id).last - 2),
     metadata |-> id]

\* the port provision_port of worker id builds when next_lport_index is index
LPort(id, index) ==
    [name |-> <<"lp", id, index>>,
     ip |-> IPAddress(int_net(id).first + index + 1),
     plen |-> int_net(id).prefixlen,
     gw |-> IPAddress(int_net(id).last - 1),
     ext_gw |-> IPAddress(ext_net(id).last - 2),
     metadata |-> id]

\* a faulty variant of Awaited: a caller starts its next call at once
NotAwaited(task) == TRUE

\* "await": a caller starts its next provision_port when the one before has
\* returned
Awaited(task) == \A k \in DOMAIN ppInFlight : ppInFlight[k].task # task

\* read_config and NetpolCrossNs.__init__
Pp_configure(pods, n, ratio, plen, ext_plen) ==
    /\ ppPhase = "config"
    /\ ppCfg' = [n_pods_per_node |-> pods, n_ns |-> n, pods_ns_ratio |-> ratio,
                 plen |-> plen, ext_plen |-> ext_plen]
    /\ ppPhase' = "bringup"
    /\ ppLeft' = pods
    /\ UNCHANGED <<ppW, ppLast, ppLports, ppNext, ppInFlight, ppIter>>
    /\ FramePorts

\* provision_port of worker w up to its await, called by task
BeginProvisionPort(task, w) ==
    ppInFlight' = Append(ppInFlight, [task |-> task, port |-> LPort(w, ppNext[w])])

\* bring-up, worker.provision_ports(ovn, n_pods_per_node): the next
\* provision_port of the list comprehension starts
Pp_bringup_port ==
    /\ ppPhase = "bringup"
    /\ ppW < NumWorkers
    /\ ppLeft > 0
    /\ Awaited("main")
    /\ BeginProvisionPort("main", ppW)
    /\ ppLeft' = ppLeft - 1
    /\ UNCHANGED <<ppPhase, ppCfg, ppW, ppLast, ppLports, ppNext, ppIter>>
    /\ FramePorts

\* bring-up: the ports of the worker are provisioned, the loop of
\* run_base_cluster_bringup goes on to the next worker; after the last
\* worker the start-up of the test calls ovn.provision_ports
Pp_bringup_next ==
    /\ ppPhase = "bringup"
    /\ ppLeft = 0
    /\ ppInFlight = <<>>
    /\ IF ppW + 1 < NumWorkers
       THEN /\ ppW' = ppW + 1
            /\ ppLeft' = ppCfg.n_pods_per_node
            /\ UNCHANGED ppPhase
       ELSE /\ ppPhase' = "startup"
            /\ ppLeft' = ppCfg.pods_ns_ratio * ppCfg.n_ns
            /\ UNCHANGED ppW
    /\ UNCHANGED <<ppCfg, ppLast, ppLports, ppNext, ppInFlight, ppIter>>
    /\ FramePorts

\* one round of Cluster.provision_ports(pods_ns_ratio * n_ns): the worker is
\* selected and its provision_port starts
Pp_startup_port ==
    /\ ppPhase = "startup"
    /\ ppLeft > 0
    /\ Awaited("main")
    /\ ppLast' = select_worker_for_port(ppLast)
    /\ BeginProvisionPort("main", select_worker_for_port(ppLast))
    /\ ppLeft' = ppLeft - 1
    /\ UNCHANGED <<ppPhase, ppCfg, ppW, ppLports, ppNext, ppIter>>
    /\ FramePorts

\* provision_port after its await: ls_port_add has returned the port,
\* "self.lports.append(lport); self.next_lport_index += 1"
Pp_port_added(k) ==
    /\ k \in DOMAIN ppInFlight
    /\ LET port == ppInFlight[k].port
           w    == port.metadata
       IN  /\ ppLports' = [ppLports EXCEPT ![w] = Append(@, port)]
           /\ ppNext' = [ppNext EXCEPT ![w] = @ + 1]
    /\ ppInFlight' = [j \in 1..(Len(ppInFlight) - 1) |->
                         IF j < k THEN ppInFlight[j] ELSE ppInFlight[j + 1]]
    /\ UNCHANGED <<ppPhase, ppCfg, ppW, ppLeft, ppLast, ppIter>>
    /\ FramePorts

\* the start-up of the test has its ports; the rate-governed phase begins
Pp_begin_test ==
    /\ ppPhase = "startup"
    /\ ppLeft = 0
    /\ ppInFlight = <<>>
    /\ ppPhase' = "test"
    /\ ppIter' = [k \in 1..ppCfg.n_ns |-> "waiting"]
    /\ UNCHANGED <<ppCfg, ppW, ppLeft, ppLast, ppLports, ppNext, ppInFlight>>
    /\ FramePorts

\* ctx.qps_test launches iteration i while earlier iterations may still run
Pp_launch(i) ==
    /\ ppPhase = "test"
    /\ i < ppCfg.n_ns
    /\ ppIter[i + 1] = "waiting"
    /\ \A j \in 0..(i - 1) : ppIter[j + 1] # "waiting"
    /\ ppIter' = [ppIter EXCEPT ![i + 1] = "launched"]
    /\ UNCHANGED <<ppPhase, ppCfg, ppW, ppLeft, ppLast, ppLports, ppNext, ppInFlight>>
    /\ FramePorts

\* NetpolCrossNs.tester of iteration i: allow_cross_namespace and
\* check_enforcing_cross_ns; it provisions no port
Pp_tester(i) ==
    /\ ppPhase = "test"
    /\ i < ppCfg.n_ns
    /\ ppIter[i + 1] = "launched"
    /\ ppIter' = [ppIter EXCEPT ![i + 1] = "ended"]
    /\ UNCHANGED <<ppPhase, ppCfg, ppW, ppLeft, ppLast, ppLports, ppNext, ppInFlight>>
    /\ FramePorts

\* every iteration has ended
Pp_end_test ==
    /\ ppPhase = "test"
    /\ \A k \in DOMAIN ppIter : ppIter[k] = "ended"
    /\ ppPhase' = "done"
    /\ UNCHANGED <<ppCfg, ppW, ppLeft, ppLast, ppLports, ppNext, ppInFlight, ppIter>>
    /\ FramePorts

NextPorts ==
    \/ \E pods \in 0..MaxPods, n \in 0..MaxNs, ratio \in 0..MaxRatio,
          plen \in NetPlens, ext_plen \in NetPlens :
              Pp_configure(pods, n, ratio, plen, ext_plen)
    \/ Pp_bringup_port
    \/ Pp_bringup_next
    \/ Pp_startup_port
    \/ \E k \in 1..(MaxNs + 1) : Pp_port_added(k)
    \/ Pp_begin_test
    \/ \E i \in 0..(MaxNs - 1) : Pp_launch(i)
    \/ \E i \in 0..(MaxNs - 1) : Pp_tester(i)
    \/ Pp_end_test

SpecPorts == Init /\ [][NextPorts]_vars

\* C27: the port at position seq (from 0) of the lports of worker id is named
\* lp-{id}-{seq}, has the IP int_net.first + seq + 1, the gateway
\* int_net.last - 1 and the ext_gw ext_net.last - 2, and has the worker as its
\* metadata; ports are only ever appended to lports, one per increment of
\* next_lport_index.
C27_PortNameAndAddresses ==
    /\ [](\A id \in Workers :
            /\ Len(ppLports[id]) = ppNext[id]
            /\ \A k \in DOMAIN ppLports[id] :
                  LET seq  == k - 1
                      port == ppLports[id][k]
                  IN  /\ port.name = <<"lp", id, seq>>
                      /\ port.ip.value = NextNet(ppCfg.plen, id).first + seq + 1
                      /\ port.gw.value = NextNet(ppCfg.plen, id).last - 1
                      /\ port.ext_gw.value = NextNet(ppCfg.ext_plen, id).last - 2
                      /\ port.metadata = id)
    /\ [][\A id \in Workers :
            \/ ppLports'[id] = ppLports[id]
            \/ /\ Len(ppLports'[id]) = Len(ppLports[id]) + 1
               /\ SubSeq(ppLports'[id], 1, Len(ppLports[id])) = ppLports[id]]_vars

\* the last worker has a port of the bring-up and a port of the start-up of
\* the test
C27_Witness ==
    /\ ppCfg.n_pods_per_node = 1
    /\ Len(ppLports[NumWorkers - 1]) = 2
    /\ ppLports[NumWorkers - 1][2].name = <<"lp", NumWorkers - 1, 1>>
    /\ ppPhase = "test"

\* C28: every port of a worker has an IP inside the CIDR of the worker's
\* node switch and of its family, distinct from the IPs of the worker's other
\* ports and from the IP int_net.last - 1 of the router port of the switch,
\* however many ports the worker has.
C28_PortIpsInsideNodeSwitch ==
    \A id \in Workers :
        \A k \in DOMAIN ppLports[id] :
            LET ip == ppLports[id][k].ip
            IN  /\ ip.version = 4
                /\ ip.value \in int_net(id).first..int_net(id).last
                /\ \A j \in DOMAIN ppLports[id] : j # k => ppLports[id][j].ip # ip
                /\ ip.value # int_net(id).last - 1

\* the calls in flight on worker w
InFlightOn(w) == {k \in DOMAIN ppInFlight : ppInFlight[k].port.metadata = w}

\* C29: at no time are two provision_port calls in flight on the same
\* worker; a call in flight holds a name that no port of the worker has, and
\* no two ports of a worker have the same name (none were allocated from the
\* same value of next_lport_index); while the iterations of the rate-governed
\* phase run, overlapping or not, no provision_port is in flight at all.
C29_ProvisionPortNeverOverlapsOnWorker ==
    /\ \A w \in Workers :
          /\ Cardinality(InFlightOn(w)) <= 1
          /\ \A k \in InFlightOn(w) :
                /\ ppInFlight[k].port.name = <<"lp", w, ppNext[w]>>
                /\ \A j \in DOMAIN ppLports[w] :
                      ppLports[w][j].name # ppInFlight[k].port.name
          /\ \A j \in DOMAIN ppLports[w], k \in DOMAIN ppLports[w] :
                j # k => ppLports[w][j].name # ppLports[w][k].name
    /\ ppPhase = "test" => ppInFlight = <<>>

\* two iterations of the test phase run at the same time; the first worker
\* got ports from the bring-up and from the start-up of the test
C29_Witness ==
    /\ ppPhase = "test"
    /\ \E i \in DOMAIN ppIter, j \in DOMAIN ppIter :
          i # j /\ ppIter[i] = "launched" /\ ppIter[j] = "launched"
    /\ Len(ppLports[0]) >= 2
    /\ ppCfg.n_pods_per_node > 0

(***************************************************************************)
(* The start of the central node: the start script, the grace period, the  *)
(* RAFT election timers of the NB and the SB DB, the memory trimming.      *)
(***************************************************************************)
MaxRaftTo == 16
GRACE_PERIOD_S == 5
TIMER_STEP_MS == 1000

\* range(start, stop, step) with a positive step, as a list
PyRange(start, stop, step) ==
    IF stop <= start THEN <<>>
    ELSE [k \in 1..((stop - start + step - 1) \div step) |-> start + (k - 1) * step]

\* a faulty variant of ElectionTimers: the loop stops one step below the target
ElectionTimersShort(timeout_s) ==
    PyRange(TIMER_STEP_MS, timeout_s * TIMER_STEP_MS, TIMER_STEP_MS)

\* "for timeout in range(1000, (timeout_s + 1) * 1000, 1000)"
ElectionTimers(timeout_s) ==
    PyRange(TIMER_STEP_MS, (timeout_s + 1) * TIMER_STEP_MS, TIMER_STEP_MS)

\* a command of the central node
StartScript == [cmd |-> "ovn_cluster.sh start", db |-> "none", arg |-> 0]
Sleep(s) == [cmd |-> "sleep", db |-> "none", arg |-> s]
ChangeElectionTimer(db, ms) == [cmd |-> "cluster/change-election-timer", db |-> db, arg |-> ms]
TrimOnCompaction == [cmd |-> "memory-trim-on-compaction", db |-> "all", arg |-> 0]

\* read_config: cluster_cfg.raft_election_to
Cn_configure(t) ==
    /\ cnPc = "config"
    /\ raft_election_to' = t
    /\ cnPc' = "start"
    /\ UNCHANGED <<cnTimeouts, cnLog>>
    /\ FrameCentral

\* CentralNode.start: the start script is run on the physical node
Cn_start_script ==
    /\ cnPc = "start"
    /\ cnLog' = Append(cnLog, StartScript)
    /\ cnPc' = "sleep"
    /\ UNCHANGED <<raft_election_to, cnTimeouts>>
    /\ FrameCentral

\* CentralNode.start: asyncio.sleep(5), then set_raft_election_timeout is
\* entered and its loop set up; after an empty loop the trimming follows
Cn_sleep ==
    /\ cnPc = "sleep"
    /\ cnLog' = Append(cnLog, Sleep(GRACE_PERIOD_S))
    /\ cnTimeouts' = ElectionTimers(raft_election_to)
    /\ cnPc' = IF ElectionTimers(raft_election_to) = <<>> THEN "trim" ELSE "nb"
    /\ UNCHANGED raft_election_to
    /\ FrameCentral

\* one round of the loop, first command: the election timer of the NB DB
Cn_change_nb_timer ==
    /\ cnPc = "nb"
    /\ cnLog' = Append(cnLog, ChangeElectionTimer("OVN_Northbound", Head(cnTimeouts)))
    /\ cnPc' = "sb"
    /\ UNCHANGED <<raft_election_to, cnTimeouts>>
    /\ FrameCentral

\* one round of the loop, second command: the election timer of the SB DB
Cn_change_sb_timer ==
    /\ cnPc = "sb"
    /\ cnLog' = Append(cnLog, ChangeElectionTimer("OVN_Southbound", Head(cnTimeouts)))
    /\ cnTimeouts' = Tail(cnTimeouts)
    /\ cnPc' = IF Tail(cnTimeouts) = <<>> THEN "trim" ELSE "nb"
    /\ UNCHANGED raft_election_to
    /\ FrameCentral

\* CentralNode.enable_trim_on_compaction
Cn_trim ==
    /\ cnPc = "trim"
    /\ cnLog' = Append(cnLog, TrimOnCompaction)
    /\ cnPc' = "done"
    /\ UNCHANGED <<raft_election_to, cnTimeouts>>
    /\ FrameCentral

NextCentral ==
    \/ \E t \in 0..MaxRaftTo : Cn_configure(t)
    \/ Cn_start_script
    \/ Cn_sleep
    \/ Cn_change_nb_timer
    \/ Cn_change_sb_timer
    \/ Cn_trim

SpecCentral == Init /\ [][NextCentral]_vars

\* the election timers issued to DB db so far, in order
TimersOf(db) ==
    LET mine == SelectSeq(cnLog, LAMBDA c : c.cmd = "cluster/change-election-timer"
                                            /\ c.db = db)
    IN  [k \in DOMAIN mine |-> mine[k].arg]

\* C30: for a target T >= 1 the election timers issued to each DB are 1000,
\* 2000, ... in steps of exactly 1000 ms, never beyond T * 1000, and they end
\* with T * 1000 when set_raft_election_timeout has returned; each value is
\* issued to the NB DB before the SB DB, and the SB DB has it before the next
\* value is issued; nothing is issued before the start script has run and the
\* grace period of 5 s has elapsed.
C30_ElectionTimerStepsUpToTarget ==
    LET nb == TimersOf("OVN_Northbound")
        sb == TimersOf("OVN_Southbound")
    IN  /\ \A k \in DOMAIN nb : nb[k] = 1000 * k /\ nb[k] <= raft_election_to * 1000
        /\ \A k \in DOMAIN sb : sb[k] = nb[k]
        /\ Len(sb) <= Len(nb)
        /\ Len(nb) <= Len(sb) + 1
        /\ \A k \in DOMAIN cnLog :
              cnLog[k].cmd = "cluster/change-election-timer" =>
                  /\ k > 2
                  /\ cnLog[1] = StartScript
                  /\ cnLog[2] = Sleep(5)
                  /\ cnLog[k].db = IF cnLog[k - 1].cmd = "cluster/change-election-timer"
                                      /\ cnLog[k - 1].db = "OVN_Northbound"
                                   THEN "OVN_Southbound" ELSE "OVN_Northbound"
        /\ (cnPc \in {"trim", "done"} /\ raft_election_to >= 1) =>
              /\ Len(nb) = raft_election_to
              /\ Len(sb) = raft_election_to
              /\ sb[Len(sb)] = raft_election_to * 1000

\* the timers of both DBs were stepped up to the target of 16 s
C30_Witness ==
    /\ cnPc = "done"
    /\ raft_election_to = 16
    /\ Len(TimersOf("OVN_Southbound")) = 16
    /\ TimersOf("OVN_Northbound")[16] = 16000

\* ---------------------------------------------------------------------------
\* The bring-up of the cluster: prepare_test (Cluster.start),
\* run_base_cluster_bringup and the loop over the configured tests.
\* ---------------------------------------------------------------------------

MaxTests == 2
MaxNodeIp == 1

\* a call made during the bring-up
Call(o, a) == [op |-> o, arg |-> a]

BuLog(calls) == buLog' = buLog \o calls

\* Cluster.start: the addresses the NB daemon is given
nb_cluster_ips_single(clustered_db, mgmt_ip) == <<mgmt_ip>>

nb_cluster_ips(clustered_db, mgmt_ip) ==
    IF clustered_db THEN <<mgmt_ip, mgmt_ip + 1, mgmt_ip + 2>> ELSE <<mgmt_ip>>

\* read_config, create_nodes (mgmt_ip = node_net.ip + 2), configure_tests
Bu_configure(clustered, n, t, ip) ==
    /\ buPc = "config"
    /\ buCfg' = [clustered_db |-> clustered, n_workers |-> n, n_tests |-> t,
                 mgmt_ip |-> ip + 2]
    /\ buPc' = "central"
    /\ UNCHANGED <<buW, buRouter, buJoin, buLb, buLog>>
    /\ FrameBringup

\* prepare_test: Cluster(...), then Cluster.start: central_node.start
Bu_central_start ==
    /\ buPc = "central"
    /\ BuLog(<<Call("central.start", 0)>>)
    /\ buW' = 0
    /\ buPc' = IF buCfg.n_workers = 0 THEN "daemon" ELSE "workers"
    /\ UNCHANGED <<buCfg, buRouter, buJoin, buLb>>
    /\ FrameBringup

\* Cluster.start: one round of the loop over the workers
Bu_worker_start ==
    /\ buPc = "workers"
    /\ BuLog(<<Call("worker.start", buW), Call("worker.configure", buW)>>)
    /\ buW' = buW + 1
    /\ buPc' = IF buW + 1 = buCfg.n_workers THEN "daemon" ELSE "workers"
    /\ UNCHANGED <<buCfg, buRouter, buJoin, buLb>>
    /\ FrameBringup

\* Cluster.start: nbctl.start_daemon(nb_cluster_ips, enable_ssl)
Bu_start_daemon ==
    /\ buPc = "daemon"
    /\ BuLog(<<Call("nbctl.start_daemon",
                    Len(nb_cluster_ips(buCfg.clustered_db, buCfg.mgmt_ip)))>>)
    /\ buPc' = "globals"
    /\ UNCHANGED <<buCfg, buW, buRouter, buJoin, buLb>>
    /\ FrameBringup

\* Cluster.start: set_global of use_logical_dp_groups and northd_probe_interval
Bu_set_globals ==
    /\ buPc = "globals"
    /\ BuLog(<<Call("nbctl.set_global", 1), Call("nbctl.set_global", 2)>>)
    /\ buPc' = "probes"
    /\ UNCHANGED <<buCfg, buW, buRouter, buJoin, buLb>>
    /\ FrameBringup

\* Cluster.start: the inactivity probe of the NB, then of the SB; start returns
Bu_set_inactivity_probes ==
    /\ buPc = "probes"
    /\ BuLog(<<Call("nbctl.set_inactivity_probe", 0),
               Call("sbctl.set_inactivity_probe", 0)>>)
    /\ buPc' = "router"
    /\ UNCHANGED <<buCfg, buW, buRouter, buJoin, buLb>>
    /\ FrameBringup

\* run_base_cluster_bringup: Cluster.create_cluster_router
Bu_create_cluster_router ==
    /\ buPc = "router"
    /\ BuLog(<<Call("create_cluster_router", 0)>>)
    /\ buRouter' = Some("lr-cluster")
    /\ buPc' = "join"
    /\ UNCHANGED <<buCfg, buW, buJoin, buLb>>
    /\ FrameBringup

\* run_base_cluster_bringup: Cluster.create_cluster_join_switch, which
\* attaches the switch to the cluster router
Bu_create_cluster_join_switch ==
    /\ buPc = "join"
    /\ buRouter # None
    /\ BuLog(<<Call("create_cluster_join_switch", 0)>>)
    /\ buJoin' = Some("ls-join")
    /\ buPc' = "lb"
    /\ UNCHANGED <<buCfg, buW, buRouter, buLb>>
    /\ FrameBringup

\* run_base_cluster_bringup: Cluster.create_cluster_load_balancer, which
\* adds the static VIPs; the loop over the workers is set up
Bu_create_cluster_load_balancer ==
    /\ buPc = "lb"
    /\ BuLog(<<Call("create_cluster_load_balancer", 0)>>)
    /\ buLb' = Some("lb-cluster")
    /\ buW' = 0
    /\ buPc' = IF buCfg.n_workers = 0 THEN "lbgroup" ELSE "provision"
    /\ UNCHANGED <<buCfg, buRouter, buJoin>>
    /\ FrameBringup

\* run_base_cluster_bringup: one round of the loop over the workers
Bu_provision_worker ==
    /\ buPc = "provision"
    /\ BuLog(<<Call("worker.provision", buW), Call("worker.provision_ports", buW),
               Call("worker.provision_load_balancers", buW),
               Call("worker.ping_ports", buW)>>)
    /\ buW' = buW + 1
    /\ buPc' = IF buW + 1 = buCfg.n_workers THEN "lbgroup" ELSE "provision"
    /\ UNCHANGED <<buCfg, buRouter, buJoin, buLb>>
    /\ FrameBringup

\* run_base_cluster_bringup: ovn.provision_lb_group(), the last statement
Bu_provision_lb_group ==
    /\ buPc = "lbgroup"
    /\ BuLog(<<Call("provision_lb_group", 0)>>)
    /\ buW' = 0
    /\ buPc' = IF buCfg.n_tests = 0 THEN "exit" ELSE "tests"
    /\ UNCHANGED <<buCfg, buRouter, buJoin, buLb>>
    /\ FrameBringup

\* __main__: one round of the loop over the configured tests
Bu_run_test ==
    /\ buPc = "tests"
    /\ BuLog(<<Call("test.run", buW)>>)
    /\ buW' = buW + 1
    /\ buPc' = IF buW + 1 = buCfg.n_tests THEN "exit" ELSE "tests"
    /\ UNCHANGED <<buCfg, buRouter, buJoin, buLb>>
    /\ FrameBringup

NextBringup ==
    \/ \E clustered \in BOOLEAN, n \in 0..NumWorkers, t \in 0..MaxTests,
          ip \in 0..MaxNodeIp : Bu_configure(clustered, n, t, ip)
    \/ Bu_central_start
    \/ Bu_worker_start
    \/ Bu_start_daemon
    \/ Bu_set_globals
    \/ Bu_set_inactivity_probes
    \/ Bu_create_cluster_router
    \/ Bu_create_cluster_join_switch
    \/ Bu_create_cluster_load_balancer
    \/ Bu_provision_worker
    \/ Bu_provision_lb_group
    \/ Bu_run_test

SpecBringup == Init /\ [][NextBringup]_vars

\* the positions of the calls of the given kinds in the log
At(ops) == {k \in DOMAIN buLog : buLog[k].op \in ops}

\* the stages of the bring-up, in the order of the claim
Stages ==
    << {"central.start"},
       {"worker.start", "worker.configure"},
       {"nbctl.start_daemon"},
       {"nbctl.set_global"},
       {"nbctl.set_inactivity_probe", "sbctl.set_inactivity_probe"},
       {"create_cluster_router", "create_cluster_load_balancer",
        "create_cluster_join_switch"} >>

Provisioning == {"worker.provision", "worker.provision_ports",
                 "worker.provision_load_balancers", "worker.ping_ports"}

NumLbTargets == 2
LbTargets == 0..(NumLbTargets - 1)

\* the lists of names a caller passes: distinct names, in ascending order
LbTargetLists ==
    {l \in UNION {[1..k -> LbTargets] : k \in 0..NumLbTargets} :
        \A i \in DOMAIN l, j \in DOMAIN l : i < j => l[i] < l[j]}

\* the state of a transaction: the rows as its commands have left them so
\* far, and whether a command has raised
Txn(att) == [att |-> att, raised |-> FALSE]

\* run_idl of lr_lb_add / ls_lb_add (may_exist is False): the router or switch
\* is looked up, a load balancer it holds already is an error
lb_add(t, table, name) ==
    IF name \notin lbRows[table] \/ name \in t.att[table]
    THEN [t EXCEPT !.raised = TRUE]
    ELSE [t EXCEPT !.att[table] = @ \cup {name}]

\* run_idl of lr_lb_del / ls_lb_del: the router or switch is looked up, the
\* load balancer is taken out of its column
lb_del(t, table, name) ==
    IF name \notin lbRows[table]
    THEN [t EXCEPT !.raised = TRUE]
    ELSE [t EXCEPT !.att[table] = @ \ {name}]

TableOfOp(o) == IF o \in {"lb_add_to_routers", "lb_remove_from_routers"} THEN "lr" ELSE "ls"

Command(t, o, name) ==
    IF o \in {"lb_add_to_routers", "lb_add_to_switches"}
    THEN lb_add(t, TableOfOp(o), name)
    ELSE lb_del(t, TableOfOp(o), name)

\* the commands of a transaction run one after another on the transaction
RECURSIVE RunCommands(_, _, _)
RunCommands(t, o, targets) ==
    IF targets = <<>> \/ t.raised THEN t
    ELSE RunCommands(Command(t, o, Head(targets)), o, Tail(targets))

\* a faulty variant: every command is committed on its own, as with
\* .execute() on each of them
transaction_execute_each(att, o, targets, committed) ==
    LET t == RunCommands(Txn(att), o, targets)
    IN  IF committed THEN t ELSE [t EXCEPT !.raised = TRUE]

\* with self.idl.transaction(check_error=True) as txn: txn.add(...) for every
\* target; leaving the block commits. The commands run on the transaction;
\* if one of them raises, or the DB refuses the commit, nothing is written
\* and the error is raised to the caller
transaction(att, o, targets, committed) ==
    LET t == RunCommands(Txn(att), o, targets)
    IN  IF t.raised \/ ~committed THEN [att |-> att, raised |-> TRUE] ELSE t

\* the routers and switches that exist in the NB
Lb_configure(lr, ls) ==
    /\ lbPc = "config"
    /\ lbRows' = [lr |-> lr, ls |-> ls]
    /\ lbPc' = "ready"
    /\ UNCHANGED <<lbAttached, lbCall>>
    /\ FrameLb

\* the call as it is recorded, with its outcome
Called(o, targets, t) == Some([op |-> o, targets |-> targets, raised |-> t.raised])

lb_add_to_routers(routers, committed) ==
    /\ lbPc = "ready"
    /\ LET t == transaction(lbAttached, "lb_add_to_routers", routers, committed)
       IN  /\ lbAttached' = t.att
           /\ lbCall' = Called("lb_add_to_routers", routers, t)
    /\ UNCHANGED <<lbPc, lbRows>>
    /\ FrameLb

lb_add_to_switches(switches, committed) ==
    /\ lbPc = "ready"
    /\ LET t == transaction(lbAttached, "lb_add_to_switches", switches, committed)
       IN  /\ lbAttached' = t.att
           /\ lbCall' = Called("lb_add_to_switches", switches, t)
    /\ UNCHANGED <<lbPc, lbRows>>
    /\ FrameLb

lb_remove_from_routers(routers, committed) ==
    /\ lbPc = "ready"
    /\ LET t == transaction(lbAttached, "lb_remove_from_routers", routers, committed)
       IN  /\ lbAttached' = t.att
           /\ lbCall' = Called("lb_remove_from_routers", routers, t)
    /\ UNCHANGED <<lbPc, lbRows>>
    /\ FrameLb

lb_remove_from_switches(switches, committed) ==
    /\ lbPc = "ready"
    /\ LET t == transaction(lbAttached, "lb_remove_from_switches", switches, committed)
       IN  /\ lbAttached' = t.att
           /\ lbCall' = Called("lb_remove_from_switches", switches, t)
    /\ UNCHANGED <<lbPc, lbRows>>
    /\ FrameLb

NextLb ==
    \/ \E lr \in SUBSET LbTargets, ls \in SUBSET LbTargets : Lb_configure(lr, ls)
    \/ \E l \in LbTargetLists, committed \in BOOLEAN : lb_add_to_routers(l, committed)
    \/ \E l \in LbTargetLists, committed \in BOOLEAN : lb_add_to_switches(l, committed)
    \/ \E l \in LbTargetLists, committed \in BOOLEAN : lb_remove_from_routers(l, committed)
    \/ \E l \in LbTargetLists, committed \in BOOLEAN : lb_remove_from_switches(l, committed)

SpecLb == Init /\ [][NextLb]_vars

\* the rows after every command of the call has taken effect
AllApplied(att, c) ==
    LET table == TableOfOp(c.op)
    IN  IF c.op \in {"lb_add_to_routers", "lb_add_to_switches"}
        THEN [att EXCEPT ![table] = @ \cup Range(c.targets)]
        ELSE [att EXCEPT ![table] = @ \ Range(c.targets)]

\* C32: a call of lb_add_to_routers, lb_add_to_switches,
\* lb_remove_from_routers or lb_remove_from_switches either returns, and then
\* the load balancer is attached to (detached from) every listed router or
\* switch, or raises, and then the NB is as it was before the call; no state
\* of the NB has the load balancer on a part of the list only, and the other
\* table is never touched.
C32_TransactionAllOrNothing ==
    [][lbCall' # None =>
          LET c == The(lbCall')
          IN  /\ c.raised => lbAttached' = lbAttached
              /\ ~c.raised => lbAttached' = AllApplied(lbAttached, c)
              /\ lbAttached' \in {lbAttached, AllApplied(lbAttached, c)}]_vars

\* a call with two routers failed at its second command, and a call with two
\* routers has attached the load balancer to both
C32_Witness ==
    /\ lbCall # None
    /\ The(lbCall).op = "lb_add_to_routers"
    /\ The(lbCall).targets = <<0, 1>>
    /\ The(lbCall).raised
    /\ lbRows.lr = {0, 1}
    /\ lbAttached.lr = {1}

\* ---------------------------------------------------------------------------
\* A ping with retries: WorkerNode.run_ping, called by ping_port and
\* ping_external.
\* ---------------------------------------------------------------------------

\* datetime.timedelta keeps days and seconds apart; seconds is below a day
SECONDS_PER_DAY == 86400
\* days a behaviour counts; later days look like the last one
MaxDays == 1
\* seconds the slowest attempt of a ping takes
MaxAttemptSeconds == 3600

AttemptSeconds == {0, 1, MaxAttemptSeconds}

\* the values of node_timeout_s: short ones, and a day less a second
PingTimeouts == (0..MaxNodeTimeout) \cup {SECONDS_PER_DAY - 1}

\* datetime.now() - start_time
timedelta(total) == [days |-> total \div SECONDS_PER_DAY, seconds |-> total % SECONDS_PER_DAY]

\* the clock d seconds later
Later(e, d) ==
    IF e + d < (MaxDays + 1) * SECONDS_PER_DAY THEN e + d
    ELSE (MaxDays * SECONDS_PER_DAY) + ((e + d) % SECONDS_PER_DAY)

\* (datetime.now() - start_time).seconds
duration(e) == timedelta(e).seconds

\* ping_port(port, dest) / ping_external(port): run_ping is entered and
\* start_time taken
Ping_start(t, reachable) ==
    /\ pgPc = "idle"
    /\ ping_timeout_s' = t
    /\ pgReachable' = reachable
    /\ pgElapsed' = 0
    /\ pgFailed' = FALSE
    /\ pgPc' = "loop"
    /\ FramePing

\* the ping command exits with 0: break, run_ping returns
Ping_attempt_succeeds ==
    /\ pgPc = "loop"
    /\ pgReachable
    /\ pgPc' = "returned"
    /\ UNCHANGED <<ping_timeout_s, pgReachable, pgElapsed, pgFailed>>
    /\ FramePing

\* the ping command fails after d seconds (SSHError): the duration is
\* compared with node_timeout_s, and the loop goes on or raises
Ping_attempt_fails(d) ==
    /\ pgPc = "loop"
    /\ pgElapsed' = Later(pgElapsed, d)
    /\ pgFailed' = TRUE
    /\ pgPc' = IF duration(Later(pgElapsed, d)) > ping_timeout_s THEN "raised" ELSE "loop"
    /\ UNCHANGED <<ping_timeout_s, pgReachable>>
    /\ FramePing

NextPing ==
    \/ \E t \in PingTimeouts, reachable \in BOOLEAN : Ping_start(t, reachable)
    \/ Ping_attempt_succeeds
    \/ \E d \in AttemptSeconds : Ping_attempt_fails(d)

SpecPing == Init /\ [][NextPing]_vars

\* C35: a ping returns only after an attempt that succeeded, and a ping
\* whose attempt failed more than node_timeout_s seconds after the first
\* attempt does not go on: it has raised OvnPingTimeoutException.
C35_FailureAfterTimeoutRaises ==
    /\ pgPc = "returned" => pgReachable
    /\ (pgPc = "loop" /\ pgFailed) => pgElapsed <= ping_timeout_s

\* ---------------------------------------------------------------------------
\* WorkerNode.provision_port and WorkerNode.unprovision_port, with the calls
\* they make failing or not.  The callers await each call, so the calls on a
\* worker come one after another.
\* ---------------------------------------------------------------------------

\* ports provision_port returns in one behaviour, over all workers
MaxWkPorts == 3

\* the port provision_port of worker id names when next_lport_index is
\* index; ip is the offset of its address from int_net.first
WkLPort(id, index) == [name |-> <<"lp", id, index>>, ip |-> index + 1, metadata |-> id]

RECURSIVE SumLen(_, _)
SumLen(f, ws) ==
    IF ws = {} THEN 0
    ELSE LET w == CHOOSE x \in ws : TRUE IN Len(f[w]) + SumLen(f, ws \ {w})

\* a faulty variant of IndexAfterUnprovision: the index of the removed port
\* is given back
IndexGivenBack(index) == index - 1

\* unprovision_port does not touch next_lport_index
IndexAfterUnprovision(index) == index

\* a faulty variant of ls_port_del_raises: a failed delete is raised
ls_port_del_checked(deleted) == ~deleted

\* OvnNbctl.ls_port_del: lsp_del(...).execute() without check_error logs a
\* failure of the command and returns
ls_port_del_raises(deleted) == FALSE

\* provision_port on worker w. ls_port_add either returns the port, with its
\* row in the NB, or raises UUIDTransactionError, with the row written or not
Wk_provision_port(w, inNb, returned) ==
    /\ SumLen(wkAllocated, Workers) < MaxWkPorts
    /\ returned => inNb
    /\ LET lport == WkLPort(w, wkNext[w])
       IN  /\ wkLsps' = IF inNb THEN wkLsps \cup {lport.name} ELSE wkLsps
           /\ wkLports' = IF returned THEN [wkLports EXCEPT ![w] = Append(@, lport)]
                          ELSE wkLports
           /\ wkNext' = IF returned THEN [wkNext EXCEPT ![w] = @ + 1] ELSE wkNext
           /\ wkAllocated' = IF returned
                             THEN [wkAllocated EXCEPT ![w] = Append(@, lport.name)]
                             ELSE wkAllocated
           /\ wkLast' = [op |-> "provision_port", port |-> Some(lport),
                         failed |-> IF returned THEN {} ELSE {"create"},
                         raised |-> ~returned]
    /\ FrameWorker

\* unprovision_port on worker w with the k-th port of its lports:
\* ls_port_del, unbind_port, lports.remove
Wk_unprovision_port(w, k, deleted, unbound) ==
    /\ k \in DOMAIN wkLports[w]
    /\ LET port == wkLports[w][k]
           raised == ls_port_del_raises(deleted) \/ ~unbound
       IN  /\ wkLsps' = IF deleted THEN wkLsps \ {port.name} ELSE wkLsps
           /\ wkLports' = IF raised THEN wkLports
                          ELSE [wkLports EXCEPT ![w] = Remove(@, port)]
           /\ wkNext' = IF raised THEN wkNext
                        ELSE [wkNext EXCEPT ![w] = IndexAfterUnprovision(@)]
           /\ wkLast' = [op |-> "unprovision_port", port |-> Some(port),
                         failed |-> (IF deleted THEN {} ELSE {"delete"})
                                    \cup (IF unbound \/ ls_port_del_raises(deleted)
                                          THEN {} ELSE {"unbind"}),
                         raised |-> raised]
    /\ UNCHANGED wkAllocated
    /\ FrameWorker

NextWorker ==
    \/ \E w \in Workers, inNb \in BOOLEAN, returned \in BOOLEAN :
          Wk_provision_port(w, inNb, returned)
    \/ \E w \in Workers, k \in 1..MaxWkPorts, deleted \in BOOLEAN, unbound \in BOOLEAN :
          Wk_unprovision_port(w, k, deleted, unbound)

SpecWorker == Init /\ [][NextWorker]_vars

\* every name provision_port has returned, over all workers
AllocatedNames(w) == Range(wkAllocated[w])

\* C37: next_lport_index of a worker never decreases; a provision_port that
\* returns adds exactly one to it and names its port lp-{id}-{index before};
\* nothing else changes it, unprovision_port in particular. So the names
\* provision_port has returned are all different, in the worker and over the
\* workers, however provisioning and unprovisioning alternate.
C37_PortIndexNeverReused ==
    /\ [][\A w \in Workers :
             /\ wkNext'[w] >= wkNext[w]
             /\ wkNext'[w] # wkNext[w] =>
                   /\ wkNext'[w] = wkNext[w] + 1
                   /\ wkLast'.op = "provision_port" /\ ~wkLast'.raised
                   /\ wkAllocated'[w] = Append(wkAllocated[w], <<"lp", w, wkNext[w]>>)
                   /\ wkLports'[w] = Append(wkLports[w], WkLPort(w, wkNext[w]))
             /\ wkAllocated'[w] # wkAllocated[w] => wkNext'[w] = wkNext[w] + 1
             /\ wkLast'.op = "unprovision_port" => wkNext'[w] = wkNext[w]]_vars
    /\ [](\A w \in Workers :
             /\ \A i \in DOMAIN wkAllocated[w], j \in DOMAIN wkAllocated[w] :
                   i # j => wkAllocated[w][i] # wkAllocated[w][j]
             /\ \A v \in Workers : v # w => AllocatedNames(v) \cap AllocatedNames(w) = {}
             /\ \A i \in DOMAIN wkLports[w], j \in DOMAIN wkLports[w] :
                   i # j => wkLports[w][i].name # wkLports[w][j].name
             /\ \A i \in DOMAIN wkLports[w] : wkLports[w][i].name \in AllocatedNames(w))

\* a worker provisioned a port, unprovisioned it and provisioned the next
\* one, which got a new name
C37_Witness ==
    /\ wkNext[0] = 2
    /\ Len(wkLports[0]) = 1
    /\ wkLports[0][1].name = <<"lp", 0, 1>>
    /\ wkAllocated[0] = << <<"lp", 0, 0>>, <<"lp", 0, 1>> >>
    /\ wkAllocated[1] # <<>>

\* C38: a provision_port whose NB create failed leaves lports and
\* next_lport_index of the worker as they were, so that the next call builds
\* the same name and IP; an unprovision_port whose NB delete or whose unbind
\* failed leaves the port in lports of the worker.
C38_FailedCallLeavesWorkerState ==
    /\ [][("create" \in wkLast'.failed /\ wkLast'.op = "provision_port") =>
             /\ wkLports' = wkLports
             /\ wkNext' = wkNext
             /\ The(wkLast'.port) = WkLPort(The(wkLast'.port).metadata,
                                            wkNext'[The(wkLast'.port).metadata])]_vars
    /\ []((wkLast.op = "unprovision_port" /\ wkLast.failed # {}) =>
             \E k \in DOMAIN wkLports[The(wkLast.port).metadata] :
                 wkLports[The(wkLast.port).metadata][k] = The(wkLast.port))

\* C39: while the namespace exists, its address set in the NB holds exactly
\* the IPs of the ports in the ports list of the namespace: add_ports adds
\* the IPs of the ports it appends, and Namespace.unprovision_ports takes out
\* the IPs of the ports it removes.
C39_AddressSetMatchesPorts ==
    ~unprovisioned => asAddrs = Range(nsPorts)

Next ==
    \/ NextUuid
    \/ NextSync
    \/ NextNs
    \/ NextLife
    \/ NextQps
    \/ NextBulk
    \/ NextDs
    \/ NextMain
    \/ NextNetpol
    \/ NextProvision
    \/ NextPorts
    \/ NextCentral
    \/ NextBringup
    \/ NextLb
    \/ NextPing
    \/ NextWorker

Spec == Init /\ [][Next]_vars
====
